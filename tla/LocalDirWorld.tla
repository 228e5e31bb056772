------------------------------ MODULE LocalDirWorld ------------------------------
(***************************************************************************)
(* The world of the packages in a directory (rc-world-local-dir.c).  It    *)
(* reads the directory when it is mounted, and again when a client asks it *)
(* for packages and the time of the directory has changed.  Other programs *)
(* add files, remove them, and remove and make the directory, between any  *)
(* two steps of the reading.  What is in subdirectories, which change      *)
(* without the time of the directory, is left out.                         *)
(***************************************************************************)
EXTENDS Naturals

CONSTANTS
  Package,        \* packages that a file may hold
  MaxClock,       \* bound: the last second
  MayVanish,      \* whether the directory may be removed and made again
  ManyPerSecond   \* whether it may change twice in a second

\* What the constants are, assumed wherever they are given values.
LocalDirAssumption ==
  MaxClock \in Nat \ {0} /\ MayVanish \in BOOLEAN /\ ManyPerSecond \in BOOLEAN

VARIABLES
  clock,
  dir,       \* [exists, mtime, files]
  world,     \* [mounted, frozen, mtime, packages], the packages those of its channel
  pc         \* "idle", "first" and "stat" before the stat of a first and a later reading,
             \* "scan" before the directory is read, "end" after it
VARIABLE
  seen       \* statbuf.st_mtime

vars == <<clock, dir, world, pc, seen>>

TypeOK ==
  /\ clock \in 1..MaxClock
  /\ dir \in [exists : BOOLEAN, mtime : 1..MaxClock, files : SUBSET Package]
  /\ world \in [mounted : BOOLEAN, frozen : BOOLEAN, mtime : 0..MaxClock, packages : SUBSET Package]
  /\ pc \in {"idle", "first", "stat", "scan", "end"}
  /\ seen \in 0..MaxClock

Init ==
  /\ clock = 1
  /\ dir \in [exists : {TRUE}, mtime : {1}, files : SUBSET Package]
  /\ world = [mounted |-> FALSE, frozen |-> FALSE, mtime |-> 0, packages |-> {}]
  /\ pc = "idle"
  /\ seen = 0

Tick ==
  /\ clock < MaxClock
  /\ clock' = clock + 1
  /\ UNCHANGED <<dir, world, pc, seen>>

NewSecond == ManyPerSecond \/ dir.mtime < clock

AddFile ==
  \E p \in Package \ dir.files :
    /\ dir.exists /\ NewSecond
    /\ dir' = [dir EXCEPT !.files = @ \cup {p}, !.mtime = clock]
    /\ UNCHANGED <<clock, world, pc, seen>>

RemoveFile ==
  \E p \in dir.files :
    /\ dir.exists /\ NewSecond
    /\ dir' = [dir EXCEPT !.files = @ \ {p}, !.mtime = clock]
    /\ UNCHANGED <<clock, world, pc, seen>>

\* The directory is removed or moved away, or is there again, empty.
Vanish ==
  /\ MayVanish /\ NewSecond
  /\ dir' = [exists |-> ~dir.exists, mtime |-> clock, files |-> {}]
  /\ UNCHANGED <<clock, world, pc, seen>>

-----------------------------------------------------------------------------
\* rc_world_local_dir_new and rc_world_local_dir_assemble_fn: the path must be a directory.
Mount ==
  /\ ~world.mounted /\ dir.exists
  /\ world' = [world EXCEPT !.mounted = TRUE, !.frozen = TRUE]
  /\ pc' = "first"
  /\ UNCHANGED <<clock, dir, seen>>

\* rc_world_local_dir_sync_fn, for channels that are not the system's.
Sync ==
  /\ pc = "idle" /\ world.mounted /\ ~world.frozen
  /\ world' = [world EXCEPT !.frozen = TRUE]
  /\ pc' = "stat"
  /\ UNCHANGED <<clock, dir, seen>>

\* The first part of rc_world_local_dir_populate.
StatFails ==
  /\ pc \in {"first", "stat"} /\ ~dir.exists
  /\ pc' = "idle"
  /\ UNCHANGED <<clock, dir, world, seen>>

IsUnchanged == pc = "stat" /\ world.mtime = dir.mtime

\* Faulty: the world stays frozen.
StatUnchangedFrozen ==
  /\ dir.exists /\ IsUnchanged
  /\ pc' = "idle"
  /\ UNCHANGED <<clock, dir, world, seen>>

StatUnchanged ==
  /\ dir.exists /\ IsUnchanged
  /\ world' = [world EXCEPT !.frozen = FALSE]
  /\ pc' = "idle"
  /\ UNCHANGED <<clock, dir, seen>>

StatChanged ==
  /\ pc \in {"first", "stat"} /\ dir.exists /\ ~IsUnchanged
  /\ pc' = "scan"
  /\ seen' = dir.mtime
  /\ UNCHANGED <<clock, dir, world>>

\* The time of the directory that is kept with what was read: that of before.
MtimeRead == seen

\* The channel is made anew, so none of the packages of the old one stay.
Scanned == IF dir.exists THEN dir.files ELSE {}

\* rc_extract_packages_from_directory, into a new channel.
Scan ==
  /\ pc = "scan"
  /\ world' = [world EXCEPT !.packages = Scanned]
  /\ pc' = "end"
  /\ UNCHANGED <<clock, dir, seen>>

PopulateEnds ==
  /\ pc = "end"
  /\ world' = [world EXCEPT !.mtime = MtimeRead, !.frozen = FALSE]
  /\ pc' = "idle"
  /\ UNCHANGED <<clock, dir, seen>>

Populate == StatFails \/ StatUnchanged \/ StatChanged \/ Scan \/ PopulateEnds

Next == Tick \/ AddFile \/ RemoveFile \/ Vanish \/ Mount \/ Sync \/ Populate

\* A reading goes on, and clients go on asking.
Spec == Init /\ [][Next]_vars /\ WF_vars(Populate) /\ WF_vars(Sync)

-----------------------------------------------------------------------------
\* A world that has the time of the directory has its packages: the next sync, which will
\* not read it, need not (populate_only_if_mtime_has_changed).
SameTimeSamePackages ==
  dir.exists /\ world.mtime = dir.mtime => world.packages = dir.files

\* What is added to the directory or removed from it is picked up by the syncs that follow
\* (the comment in rc_world_local_dir_sync_fn).
PicksUp ==
  \A S \in SUBSET Package :
    <>[](world.mounted /\ dir.exists /\ dir.files = S) => <>[](world.packages = S)
=============================================================================
