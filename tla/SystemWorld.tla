------------------------------ MODULE SystemWorld ------------------------------
(***************************************************************************)
(* The system worlds and the package database behind them.                 *)
(*                                                                         *)
(* A system world is a cache of the database of installed packages.  It is *)
(* reloaded when it is asked and the modification time of the database     *)
(* differs from the one noted, when the watcher of the package manager     *)
(* signals a change, when it is refreshed, and after a transaction.  There *)
(* is one note of the modification time for all worlds, in the package     *)
(* manager (RCRpmman), and it has the resolution of a second.              *)
(*                                                                         *)
(* The program is one thread; other processes change the database at any   *)
(* time, unless it is locked for writing.  What the thread does with the   *)
(* database open is therefore taken apart into steps.                      *)
(***************************************************************************)
EXTENDS Naturals, Sequences, FiniteSets, SequencesExt

CONSTANTS
  World,      \* the system worlds: the mounted one and its duplicates
  Clients,    \* what clients do: "lock", "query", "transact", "duplicate"
  Faults,     \* what happens at a bad time: "read", "busy", "during", "second"
  MaxChange,  \* a bound on the changes of the database
  MaxTime,    \* a bound on the clock, in seconds
  MaxLock,    \* a bound on the nesting of locks
  NONE        \* the contents of a world that is not loaded

\* What the constants are, assumed wherever they are given values.
SystemAssumption ==
  /\ Clients \subseteq {"lock", "query", "transact", "duplicate"}
  /\ Faults \subseteq {"read", "busy", "during", "second"}
  /\ MaxChange \in Nat /\ MaxTime \in Nat \ {0} /\ MaxLock \in Nat
  /\ NONE \notin Nat

VARIABLES
  db,         \* the contents of the database: the number of changes made to it
  mtime,      \* its modification time
  clock,
  yast,       \* whether YaST is running
  busy,       \* whether another process holds the lock for writing
  status,     \* db_status: how this process has the database open
  clean,      \* db_clean: the last attempt to open it succeeded
  noted,      \* db_mtime: the modification time seen last
  watchers,   \* the number of timers that call database_check_func
  lockCount,
  alive,      \* the worlds connected to "database_changed", in that order
  loaded,     \* the contents of each world
  job,        \* what the thread is doing
  missed      \* the worlds for which a change has gone by unseen

outside == <<db, mtime, clock, yast, busy>>
handle  == <<status, clean, noted, watchers>>
vars    == <<outside, handle, lockCount, alive, loaded, job, missed>>

\* todo: the worlds to be loaded, or the world that transacts; opened: whether
\* the database has to be closed (close_db); making: whether the world is new.
Job  == [kind : {"idle", "load", "read", "close", "transact"},
         todo : Seq(World), opened : BOOLEAN, making : BOOLEAN]
Idle == [kind |-> "idle", todo |-> <<>>, opened |-> FALSE, making |-> FALSE]
Load(worlds) == [Idle EXCEPT !.kind = "load", !.todo = worlds]
GoOn(worlds) == IF worlds = <<>> THEN Idle ELSE Load(worlds)

TypeOK ==
  /\ db \in 0..MaxChange /\ mtime \in 1..MaxTime /\ clock \in 1..MaxTime
  /\ yast \in BOOLEAN /\ busy \in BOOLEAN
  /\ status \in {"none", "rdonly", "rdwr"} /\ clean \in BOOLEAN
  /\ noted \in 0..MaxTime /\ watchers \in Nat /\ lockCount \in 0..MaxLock
  /\ alive \in Seq(World) /\ loaded \in [World -> 0..MaxChange \cup {NONE}]
  /\ job \in Job /\ missed \subseteq World

\* The package manager has been made; no world has.
Init ==
  /\ db = 0 /\ mtime = 1 /\ clock = 1 /\ yast = FALSE /\ busy = FALSE
  /\ status = "none" /\ clean = FALSE /\ noted = 0 /\ watchers = 1
  /\ lockCount = 0 /\ alive = <<>> /\ loaded = [w \in World |-> NONE]
  /\ job = Idle /\ missed = {}

-----------------------------------------------------------------------------
\* What RCRpmman knows of changes.

\* The result of rc_rpmman_is_database_changed.
Changed == ~yast /\ (~clean \/ mtime # noted)

\* db_mtime after rc_rpmman_is_database_changed.
Noted == IF ~yast /\ clean THEN mtime ELSE noted

Stale == {w \in Range(alive) : loaded[w] # db}

\* The worlds for which a change goes by unseen when the time is noted, or the
\* database found clean again, and only the worlds in kept will be loaded.
Overlooked(kept) == IF Changed THEN Stale \ kept ELSE {}

\* Faulty: a failure leaves no trace.
OpenFailsSilently == UNCHANGED <<handle, missed>>

\* open_database takes its error exit.
OpenFails ==
  /\ clean' = FALSE
  /\ missed' = {}
  /\ UNCHANGED <<status, noted, watchers>>

\* open_database succeeds; the watcher is removed.
Opens(how, kept) ==
  /\ status' = how
  /\ clean' = TRUE
  /\ watchers' = 0
  /\ missed' = missed \cup (IF clean THEN {} ELSE Stale \ kept)
  /\ UNCHANGED noted

\* close_database: it notes the time and drops the result of the check.
Closes(kept) ==
  /\ status' = "none"
  /\ noted' = Noted
  /\ watchers' = watchers + 1
  /\ missed' = missed \cup Overlooked(kept)
  /\ UNCHANGED clean

-----------------------------------------------------------------------------
\* Loading: rc_world_system_load_packages for each world of a list.

\* What becomes of a world that could not be loaded: a new one is destroyed.
Unloaded(w) ==
  /\ alive' = IF job.making THEN RemoveFirst(alive, w) ELSE alive
  /\ job' = GoOn(Tail(job.todo))

\* The store is cleared, and the database opened unless it is open.  The query
\* waits while YaST is running.
LoadOpen ==
  /\ job.kind = "load" /\ ~yast
  /\ loaded' = [loaded EXCEPT ![Head(job.todo)] = NONE]
  /\ \/ /\ status # "none"
        /\ job' = [job EXCEPT !.kind = "read"]
        /\ UNCHANGED <<handle, missed, alive>>
     \/ /\ status = "none" /\ ~busy
        /\ Opens("rdonly", Range(job.todo))
        /\ job' = [job EXCEPT !.kind = "read", !.opened = TRUE]
        /\ UNCHANGED alive
     \/ /\ status = "none" /\ busy
        /\ OpenFails
        /\ Unloaded(Head(job.todo))
  /\ UNCHANGED <<outside, lockCount>>

\* The packages are read, or the query fails; the database is closed later.
Leave(ok) ==
  IF job.opened THEN /\ job' = [job EXCEPT !.kind = "close", !.making = @ /\ ~ok]
                     /\ UNCHANGED alive
  ELSE IF ok THEN job' = GoOn(Tail(job.todo)) /\ UNCHANGED alive
  ELSE Unloaded(Head(job.todo))

LoadRead ==
  /\ job.kind = "read"
  /\ loaded' = [loaded EXCEPT ![Head(job.todo)] = db]
  /\ missed' = missed \ {Head(job.todo)}
  /\ Leave(TRUE)
  /\ UNCHANGED <<outside, handle, lockCount>>

LoadFails ==
  /\ job.kind = "read" /\ "read" \in Faults
  /\ missed' = missed \cup {Head(job.todo)}
  /\ Leave(FALSE)
  /\ UNCHANGED <<outside, handle, lockCount, loaded>>

LoadClose ==
  /\ job.kind = "close"
  /\ Closes(Range(Tail(job.todo)))
  /\ Unloaded(Head(job.todo))
  /\ UNCHANGED <<outside, lockCount, loaded>>

-----------------------------------------------------------------------------
\* What starts a load.

\* Faulty: only a world that has been loaded is reloaded.
CheckLoaded(worlds) ==
  /\ noted' = Noted
  /\ missed' = missed \cup (IF clean THEN Overlooked(Range(worlds)) ELSE {})
  /\ LET some == SelectSeq(worlds, LAMBDA w : loaded[w] # NONE)
     IN  job' = IF Changed THEN GoOn(some) ELSE job
  /\ UNCHANGED <<status, clean, watchers>>

\* rc_rpmman_is_database_changed, and if so the worlds are loaded.
Check(worlds) ==
  /\ noted' = Noted
  /\ missed' = missed \cup (IF clean THEN Overlooked(Range(worlds)) ELSE {})
  /\ job' = IF Changed THEN GoOn(worlds) ELSE job
  /\ UNCHANGED <<status, clean, watchers>>

\* A world is asked (rc_world_system_sync).
Sync(w) ==
  /\ job = Idle /\ w \in Range(alive)
  /\ Check(<<w>>)
  /\ UNCHANGED <<outside, lockCount, alive, loaded>>

\* The timer runs out (database_check_func); the signal reaches all worlds.
Watch ==
  /\ job = Idle /\ watchers > 0
  /\ Check(alive)
  /\ UNCHANGED <<outside, lockCount, alive, loaded>>

\* rc_world_system_refresh: the result of the load is ignored.
Refresh(w) ==
  /\ job = Idle /\ w \in Range(alive)
  /\ job' = Load(<<w>>)
  /\ UNCHANGED <<outside, handle, lockCount, alive, loaded, missed>>

\* rc_world_system_new.
New(w) ==
  /\ job = Idle /\ alive = <<>>
  /\ alive' = <<w>>
  /\ job' = [Load(<<w>>) EXCEPT !.making = TRUE]
  /\ UNCHANGED <<outside, handle, lockCount, loaded, missed>>

\* A multi world duplicates a system world and refreshes the duplicate.
Duplicate(w) ==
  /\ "duplicate" \in Clients
  /\ job = Idle /\ alive # <<>> /\ w \notin Range(alive)
  /\ alive' = Append(alive, w)
  /\ job' = Load(<<w>>)
  /\ UNCHANGED <<outside, handle, lockCount, loaded, missed>>

\* rc_world_system_finalize.
Finalize(w) ==
  /\ job = Idle /\ w \in Range(alive) /\ Len(alive) > 1
  /\ alive' = RemoveFirst(alive, w)
  /\ loaded' = [loaded EXCEPT ![w] = NONE]
  /\ missed' = missed \ {w}
  /\ UNCHANGED <<outside, handle, lockCount, job>>

-----------------------------------------------------------------------------
\* Transactions: rc_world_system_transact and rc_rpmman_transact.

TransactBegin(w) ==
  /\ "transact" \in Clients
  /\ job = Idle /\ w \in Range(alive)
  /\ \/ /\ status = "rdwr"
        /\ job' = [Idle EXCEPT !.kind = "transact", !.todo = <<w>>]
        /\ UNCHANGED <<handle, missed>>
     \/ /\ status = "none" /\ ~busy
        /\ Opens("rdwr", {})
        /\ job' = [Idle EXCEPT !.kind = "transact", !.todo = <<w>>, !.opened = TRUE]
     \/ /\ status = "none" /\ busy
        /\ OpenFails
        /\ UNCHANGED job
  /\ UNCHANGED <<outside, lockCount, alive, loaded>>

\* librpm installs or removes a package.
TransactStep ==
  /\ job.kind = "transact" /\ db < MaxChange
  /\ db' = db + 1
  /\ mtime' = clock
  /\ missed' = missed \cup (IF clock = noted THEN Range(alive) ELSE {})
  /\ UNCHANGED <<clock, yast, busy, handle, lockCount, alive, loaded, job>>

\* The main loop runs in the middle of the transaction (GTKFLUSH), and a client
\* asks a world.  The database is open, so that it is loaded in one step.
NestedSync(v) ==
  /\ job.kind = "transact" /\ v \in Range(alive)
  /\ Changed
  /\ loaded' = [loaded EXCEPT ![v] = db]
  /\ noted' = Noted
  /\ missed' = (missed \cup Overlooked({v})) \ {v}
  /\ UNCHANGED <<outside, status, clean, watchers, lockCount, alive, job>>

\* Faulty: the database is closed although the client has it locked.
LeaveTransactClosing(kept) == Closes(kept)

LeaveTransact(kept) ==
  \/ job.opened /\ Closes(kept)
  \/ ~job.opened /\ UNCHANGED <<handle, missed>>

\* librpm reports an error: the world is not refreshed.
TransactFails ==
  /\ job.kind = "transact"
  /\ LeaveTransact({})
  /\ job' = Idle
  /\ UNCHANGED <<outside, lockCount, alive, loaded>>

TransactDone ==
  /\ job.kind = "transact"
  /\ LeaveTransact(Range(job.todo))
  /\ job' = Load(job.todo)
  /\ UNCHANGED <<outside, lockCount, alive, loaded>>

-----------------------------------------------------------------------------
\* Clients of the package manager.

\* rc_packman_lock and rc_packman_unlock.
Lock ==
  /\ "lock" \in Clients /\ job = Idle /\ lockCount < MaxLock
  /\ \/ lockCount = 0 /\ ~busy /\ Opens("rdwr", {}) /\ lockCount' = 1
     \/ lockCount = 0 /\ busy /\ OpenFails /\ UNCHANGED lockCount
     \/ lockCount > 0 /\ lockCount' = lockCount + 1 /\ UNCHANGED <<handle, missed>>
  /\ UNCHANGED <<outside, alive, loaded, job>>

Unlock ==
  /\ job = Idle /\ lockCount > 0
  /\ \/ lockCount = 1 /\ Closes({})
     \/ lockCount > 1 /\ UNCHANGED <<handle, missed>>
  /\ lockCount' = lockCount - 1
  /\ UNCHANGED <<outside, alive, loaded, job>>

\* A query of the package manager itself (rc_rpmman_query and its like) opens
\* the database and closes it again.
Query ==
  /\ "query" \in Clients /\ job = Idle /\ status = "none"
  /\ \/ /\ ~busy
        /\ clean' = TRUE
        /\ noted' = IF yast THEN noted ELSE mtime
        /\ missed' = missed \cup
             (IF ~clean \/ (~yast /\ mtime # noted) THEN Stale ELSE {})
        /\ UNCHANGED <<status, watchers>>
     \/ busy /\ OpenFails
  /\ UNCHANGED <<outside, lockCount, alive, loaded, job>>

-----------------------------------------------------------------------------
\* Other processes.

Tick ==
  /\ clock < MaxTime
  /\ clock' = clock + 1
  /\ UNCHANGED <<db, mtime, yast, busy, handle, lockCount, alive, loaded, job, missed>>

OtherChanges ==
  /\ db < MaxChange /\ status # "rdwr"
  /\ status # "none" => "during" \in Faults
  /\ clock = noted => "second" \in Faults
  /\ db' = db + 1
  /\ mtime' = clock
  /\ missed' = missed \cup (IF clock = noted /\ clean THEN Range(alive) ELSE {})
  /\ UNCHANGED <<clock, yast, busy, handle, lockCount, alive, loaded, job>>

OtherLocks ==
  /\ "busy" \in Faults /\ ~busy /\ status # "rdwr"
  /\ busy' = TRUE
  /\ UNCHANGED <<db, mtime, clock, yast, handle, lockCount, alive, loaded, job, missed>>

OtherUnlocks ==
  /\ busy
  /\ busy' = FALSE
  /\ UNCHANGED <<db, mtime, clock, yast, handle, lockCount, alive, loaded, job, missed>>

YastStarts ==
  /\ ~yast /\ db < MaxChange
  /\ yast' = TRUE
  /\ UNCHANGED <<db, mtime, clock, busy, handle, lockCount, alive, loaded, job, missed>>

YastEnds ==
  /\ yast
  /\ yast' = FALSE
  /\ UNCHANGED <<db, mtime, clock, busy, handle, lockCount, alive, loaded, job, missed>>

-----------------------------------------------------------------------------
Loading == LoadOpen \/ LoadRead \/ LoadFails \/ LoadClose
Transacting == TransactStep \/ TransactFails \/ TransactDone
                 \/ \E v \in World : NestedSync(v)
Clienting ==
  \/ \E w \in World : \/ Sync(w) \/ Refresh(w) \/ New(w) \/ Duplicate(w)
                      \/ Finalize(w) \/ TransactBegin(w)
  \/ Lock \/ Unlock \/ Query
Others == Tick \/ OtherChanges \/ OtherLocks \/ OtherUnlocks \/ YastStarts \/ YastEnds

Next == Loading \/ Transacting \/ Watch \/ Clienting \/ Others

Spec == Init /\ [][Next]_vars

\* The thread goes on, its timer runs out now and then, and a transaction ends.
FairSpec ==
  /\ Spec
  /\ WF_vars(Loading) /\ SF_vars(Watch)
  /\ WF_vars(TransactFails \/ TransactDone)

-----------------------------------------------------------------------------
\* The next check that is not put off by YaST will find a change.
WillNotice == ~clean \/ mtime # noted

\* As long as nobody else opens the database, only one world caches it, and the
\* database does not change twice in a second or while it is read, no change is
\* lost: a world that differs from the database will be reloaded at the next
\* check (rc_rpmman_is_database_changed, rc_world_system_sync).
NoChangeIsLost ==
  job = Idle => \A w \in Stale : WillNotice

\* However the database is used, these are the only ways to lose a change: it
\* falls into a second that was noted before; the time is noted, or a failure
\* forgotten, by somebody who does not reload the world; or the query fails.  A
\* database that could not be opened, or was changed under YaST, is none.
LossesAreExplained ==
  job = Idle => \A w \in Stale : WillNotice \/ w \in missed

\* The database is watched by one timer, except while it is open (open_database
\* and close_database, which are called in pairs by many functions).
WatchedByOne == watchers = IF status = "none" THEN 1 ELSE 0

\* Whoever has been told that he has the lock has it: the database is not
\* closed by what is done in between (the close_db flags).
LockIsHeld == lockCount > 0 => status = "rdwr"

\* If other processes leave the database alone in the end, a world that differs
\* from it is brought up to date, by the watcher at the latest.
GetsFresh ==
  <>[](~busy /\ ~yast) => \A w \in World : w \in Stale ~> w \notin Stale

=============================================================================
