--------------------------------- MODULE Debman ---------------------------------
(***************************************************************************)
(* The Debian back end: the lock of the dpkg database and the count of the *)
(* front end's locks, the timers that watch the database, the table of     *)
(* packages, and a transaction, which marks packages in the status file,   *)
(* gives the lock up for each run of dpkg, watches that run from a nested  *)
(* main loop, and puts the status file right in the end.                   *)
(*                                                                         *)
(* Other processes may hold the lock and change packages whenever they     *)
(* can; a run of dpkg may ask for input, fail or be killed; this process   *)
(* may be killed.  seqno is left out: it is below the total whenever there *)
(* is something to purge.                                                  *)
(***************************************************************************)
EXTENDS Naturals

CONSTANTS
  Package,          \* packages
  Lost,             \* for a stanza that is not in the status file
  Installed0,       \* the packages installed at first
  Failures,         \* what may fail: "write", "dry", "fork", "dpkg", "input", "crash", "other"
  Flags,            \* whether a transaction has RC_TRANSACT_FLAG_NO_ACT
  MaxTransactions,  \* a bound on transactions
  MaxChanges,       \* a bound on changes by other processes
  MaxLocks          \* a bound on the front end's lock_count

-----------------------------------------------------------------------------
\* The status file.  A stanza has the three words of its Status line: what is wanted, a
\* flag, and the state.  A file maps each package to its stanza.

Want  == {"install", "hold", "deinstall", "purge"}
Flag  == {"ok", "reinstreq"}
State == {"installed", "not-installed", "config-files", "unpacked", "half-configured"}

Stanza == [want : Want, flag : Flag, state : State]
File   == [Package -> Stanza \cup {Lost}]

S(want, flag, state) == [want |-> want, flag |-> flag, state |-> state]

InState(file, states) == {p \in Package : file[p] # Lost /\ file[p].state \in states}

\* A package that "dpkg --purge --pending" will remove.
IsMarked(s) == s # Lost /\ s.want = "purge" /\ s.state = "installed"
Marked(file) == {p \in Package : IsMarked(file[p])}

\* mark_status_read_line_cb: whatever the Status line was, it is written anew.
Mark(file, remove) ==
  [p \in Package |-> IF p \in remove /\ file[p] # Lost
                     THEN S("purge", "ok", "installed") ELSE file[p]]

\* verify_status_read_line_cb: what it takes for BROKEN,
IsBroken(s) ==
  s # Lost /\ (s.flag # "ok" \/ s.state \notin {"installed", "not-installed", "config-files"})

\* Faulty: a selection of an installed package is left alone.
VerifiedAsIs(s) ==
  IF s = Lost THEN s
  ELSE CASE s.state = "not-installed" /\ s.want \notin {"purge", "deinstall"}
              -> [s EXCEPT !.want = "purge"]
         [] s.state = "config-files" -> [s EXCEPT !.want = "deinstall"]
         [] OTHER -> s

\* and what is written otherwise.
Verified(s) ==
  IF s = Lost THEN s
  ELSE CASE s.state = "installed" /\ s.want \notin {"install", "hold"}
              -> [s EXCEPT !.want = "install"]
         [] s.state = "not-installed" /\ s.want \notin {"purge", "deinstall"}
              -> [s EXCEPT !.want = "purge"]
         [] s.state = "config-files" -> [s EXCEPT !.want = "deinstall"]
         [] OTHER -> s

CanVerify(file) == \A p \in Package : ~IsBroken(file[p])
Verify(file)    == [p \in Package |-> Verified(file[p])]

\* query_all_read_line_cb and rc_debman_query_all_real: the packages that are
\* put into the table.
Query(file) == InState(file, {"installed"})

-----------------------------------------------------------------------------
\* What dpkg does to the file when nothing goes wrong: for --unpack, for
\* --purge --pending and for --configure --pending.
Unpacked(file, install) ==
  [p \in Package |-> IF p \in install THEN S("install", "ok", "unpacked") ELSE file[p]]

Purged(file) ==
  [p \in Package |-> IF IsMarked(file[p]) THEN S("purge", "ok", "not-installed") ELSE file[p]]

Configured(file) ==
  [p \in Package |-> IF p \in InState(file, {"unpacked", "half-configured"})
                     THEN S("install", "ok", "installed") ELSE file[p]]

-----------------------------------------------------------------------------
\* What the constants are, assumed wherever they are given values.
DebmanAssumption ==
  /\ Lost \notin Stanza /\ Installed0 \subseteq Package /\ Flags \subseteq BOOLEAN
  /\ Failures \subseteq {"write", "dry", "fork", "dpkg", "input", "crash", "other"}
  /\ MaxTransactions \in Nat /\ MaxChanges \in Nat /\ MaxLocks \in Nat

ABORT == 1
FATAL == 2

NoRequest == [install |-> {}, remove |-> {}, noact |-> FALSE]
NoCache   == [valid |-> FALSE, names |-> {}]

VARIABLES
  status,      \* /var/lib/dpkg/status
  moved,       \* whether its modification time is db_mtime, see Moves
  holder,      \* who has the lock: "none", "self" (lock_fd # -1), "other", "dpkg"
  watchers,    \* timers with database_check_func
  cache,       \* package_hash and hash_valid
  count,       \* lock_count of the front end
  error,       \* error of the front end
  request, pc, phase,
  unlockDb,    \* unlock_db of rc_debman_transact
  child,       \* the run of dpkg: "none", "new", "asking", "done", "failed"
  wantsInput,  \* child_wants_input
  asked,       \* the packages that some transaction was to remove
  asker,       \* whether the run of dpkg at hand, or the last one, has asked for input
  killed,      \* whether it was killed by this process
  interfered,  \* whether another process has changed packages during a transaction
  removed,     \* the packages that the last transaction removed
  transactions, changes

\* Whether the modification time of the status file, in whole seconds, is the one that was
\* noted, db_mtime: it is ("no"), it is although the file was written since, within the
\* same second ("unseen"), or it is later ("yes").
Moves == {"no", "unseen", "yes"}

lockVars == <<holder, watchers, count>>
fileVars == <<status, moved>>
runVars  == <<child, wantsInput, asker, killed>>
history  == <<asked, interfered, removed>>
bounds   == <<transactions, changes>>
vars == <<fileVars, lockVars, cache, error, request, pc, phase, unlockDb, runVars,
          history, bounds>>

Idle == pc = "idle"

TypeOK ==
  /\ status \in File /\ moved \in Moves
  /\ holder \in {"none", "self", "other", "dpkg"}
  /\ watchers \in Nat /\ count \in 0..MaxLocks /\ error \in 0..2
  /\ cache.valid \in BOOLEAN /\ cache.names \subseteq Package
  /\ request.install \cap request.remove = {}
  /\ pc \in {"init", "idle", "mark", "dry", "start", "run", "reap", "end", "verify", "down"}
  /\ phase \in {"none", "unpack", "purge", "configure"}
  /\ child \in {"none", "new", "asking", "done", "failed"}
  /\ pc = "run" => phase # "none"

-----------------------------------------------------------------------------
\* The parts that actions are made of.

\* rc_packman_set_error keeps the worse one.
SetError(e, kind) == IF kind > e THEN kind ELSE e

\* The file is written, maybe in the second of the modification time that was noted.
Write(file) ==
  /\ status' = file
  /\ moved' \in IF moved = "yes" THEN {"yes"} ELSE {"unseen", "yes"}

\* lock_database, if nobody has the lock: the timer made last is removed.
CanLock == holder = "none"
Lock    == holder' = "self" /\ watchers' = watchers - 1

\* rc_debman_is_database_changed.
Noted == IF moved = "yes" THEN moved' = "no" /\ cache' = NoCache ELSE UNCHANGED <<moved, cache>>

\* unlock_database, also when lock_fd is -1: then another timer is added and a
\* file that is not open is closed.
Unlock == /\ Noted
          /\ watchers' = watchers + 1
          /\ holder' = IF holder = "self" THEN "none" ELSE holder

-----------------------------------------------------------------------------
\* The front end.

\* rc_packman_lock.
PackmanLock ==
  /\ Idle /\ count < MaxLocks
  /\ IF count > 0
     THEN count' = count + 1 /\ error' = 0 /\ UNCHANGED <<holder, watchers>>
     ELSE IF CanLock THEN Lock /\ count' = 1 /\ error' = 0
     ELSE error' = ABORT /\ UNCHANGED lockVars
  /\ UNCHANGED <<fileVars, cache, request, pc, phase, unlockDb, runVars, history, bounds>>

\* rc_packman_unlock.
PackmanUnlock ==
  /\ Idle /\ count > 0
  /\ count' = count - 1 /\ error' = 0
  /\ IF count = 1 THEN Unlock ELSE UNCHANGED <<holder, watchers, moved, cache>>
  /\ UNCHANGED <<status, request, pc, phase, unlockDb, runVars, history, bounds>>

\* rc_debman_query_all, which callbacks may call from a nested main loop too.
QueryAll ==
  /\ pc \in {"idle", "run"} /\ ~cache.valid
  /\ cache' = [valid |-> TRUE, names |-> Query(status)]
  /\ UNCHANGED <<fileVars, lockVars, error, request, pc, phase, unlockDb, runVars, history,
                 bounds>>

\* database_check_func, from the main loop or a nested one.
Check ==
  /\ pc \in {"idle", "run"} /\ watchers > 0 /\ moved = "yes"
  /\ Noted
  /\ UNCHANGED <<status, lockVars, error, request, pc, phase, unlockDb, runVars, history,
                 bounds>>

-----------------------------------------------------------------------------
\* rc_debman_transact.

Requests == {r \in [install : SUBSET Package, remove : SUBSET Package, noact : Flags] :
               r.install \cap r.remove = {} /\ r.install \cup r.remove # {}}

Start ==
  /\ Idle /\ transactions < MaxTransactions
  /\ \E r \in Requests :
       /\ r.install \cap Query(status) = {} /\ r.remove \subseteq Query(status)
       /\ request' = r
       /\ asked' = asked \cup r.remove
  /\ transactions' = transactions + 1
  /\ interfered' = FALSE /\ removed' = {}
  /\ IF holder = "self"
     THEN pc' = "mark" /\ unlockDb' = FALSE /\ error' = 0 /\ UNCHANGED <<holder, watchers>>
     ELSE IF CanLock
     THEN Lock /\ pc' = "mark" /\ unlockDb' = TRUE /\ error' = 0
     ELSE /\ error' = ABORT /\ pc' = "end" /\ unlockDb' = FALSE
          /\ UNCHANGED <<holder, watchers>>
  /\ UNCHANGED <<fileVars, count, cache, phase, runVars, changes>>

\* The transaction has failed and goes to END.
Fail(kind) == error' = SetError(error, kind) /\ pc' = "end"

\* mark_status.
MarkStatus ==
  /\ pc = "mark"
  /\ Write(Mark(status, request.remove))
  /\ pc' = IF request.install # {} THEN "dry" ELSE "start"
  /\ phase' = IF request.install # {} THEN "unpack" ELSE "purge"
  /\ UNCHANGED <<lockVars, cache, error, request, unlockDb, runVars, history, bounds>>

MarkStatusFails ==
  /\ pc = "mark" /\ "write" \in Failures
  /\ Fail(ABORT)
  /\ UNCHANGED <<fileVars, lockVars, cache, request, phase, unlockDb, runVars, history, bounds>>

\* do_unpack runs every command with --no-act first.
DryRun ==
  /\ pc = "dry"
  /\ \/ pc' = "start" /\ UNCHANGED error
     \/ "dry" \in Failures /\ Fail(ABORT)
  /\ UNCHANGED <<fileVars, lockVars, cache, request, phase, unlockDb, runVars, history, bounds>>

\* Faulty: dpkg is started under the lock.
StartChildLocked ==
  /\ pc = "start"
  /\ pc' = "run" /\ child' = "new" /\ asker' = FALSE /\ killed' = FALSE
  /\ UNCHANGED <<fileVars, lockVars, cache, error, request, phase, unlockDb, wantsInput, history,
                 bounds>>

\* do_unpack, do_purge and do_configure: unlock_database and fork.  child_wants_input
\* is as it was left.
StartChild ==
  /\ pc = "start"
  /\ Unlock
  /\ pc' = "run" /\ child' = "new" /\ asker' = FALSE /\ killed' = FALSE
  /\ UNCHANGED <<status, count, error, request, phase, unlockDb, wantsInput, history, bounds>>

\* The lock is not taken back.
ForkFails ==
  /\ pc = "start" /\ "fork" \in Failures
  /\ Unlock
  /\ Fail(FATAL)
  /\ UNCHANGED <<status, count, request, phase, unlockDb, runVars, history, bounds>>

\* What the run of dpkg is to do.  Only do_unpack knows of RC_TRANSACT_FLAG_NO_ACT.
UnpackWork    == IF request.noact THEN status ELSE Unpacked(status, request.install)
PurgeWork     == Purged(status)
ConfigureWork == Configured(status)

Work == CASE phase = "unpack"    -> UnpackWork
          [] phase = "purge"     -> PurgeWork
          [] phase = "configure" -> ConfigureWork

\* The run of dpkg does its work, and ends.
ChildWorks ==
  /\ pc = "run" /\ child \in {"new", "asking"} /\ holder \in {"none", "dpkg"}
  /\ holder' = "none"
  /\ IF Work = status THEN UNCHANGED fileVars ELSE Write(Work)
  /\ removed' = removed \cup (Query(status) \cap InState(Work, {"not-installed"}))
  /\ child' = "done" /\ pc' = "reap"
  /\ UNCHANGED <<watchers, count, cache, error, request, phase, unlockDb, wantsInput, asker, killed,
                 asked, interfered, bounds>>

\* It may get no further than to some package.
Halfway ==
  \/ UNCHANGED fileVars
  \/ \E p \in Package :
       /\ Work[p] # status[p]
       /\ Write([status EXCEPT ![p] = S(Work[p].want, "ok", "half-configured")])

\* It cannot get the lock, or stops at a package.
ChildFails ==
  /\ pc = "run" /\ child \in {"new", "asking"}
  /\ \/ holder = "other" /\ UNCHANGED <<fileVars, holder>>
     \/ holder # "other" /\ "dpkg" \in Failures /\ holder' = "none" /\ Halfway
  /\ child' = "failed" /\ pc' = "reap"
  /\ UNCHANGED <<watchers, count, cache, error, request, phase, unlockDb, wantsInput, asker, killed,
                 history, bounds>>

\* rc-dpkg-helper.c: a read of the terminal by dpkg or its children is told by a
\* signal.  The child may go on by itself, when the read is given up.
ChildAsks ==
  /\ pc = "run" /\ child = "new" /\ "input" \in Failures /\ holder = "none"
  /\ child' = "asking" /\ asker' = TRUE /\ wantsInput' = TRUE
  /\ holder' = "dpkg"
  /\ UNCHANGED <<fileVars, watchers, count, cache, error, request, pc, phase, unlockDb, killed, history,
                 bounds>>

\* Faulty: the run of dpkg is left alone and is waited for.
PollWaiting ==
  /\ pc = "run" /\ wantsInput
  /\ wantsInput' = FALSE
  /\ UNCHANGED <<fileVars, lockVars, cache, error, request, phase, unlockDb, child, asker, killed,
                 pc, history, bounds>>

\* debman_poll_write_cb: dpkg is killed, at whatever package it is; its caller
\* returns without the lock.
Poll ==
  /\ pc = "run" /\ wantsInput
  /\ wantsInput' = FALSE /\ killed' = TRUE /\ child' = "none"
  /\ IF holder = "other" THEN UNCHANGED <<fileVars, holder>>
     ELSE holder' = "none" /\ Halfway
  /\ Fail(FATAL)
  /\ UNCHANGED <<watchers, count, cache, request, phase, unlockDb, asker, history, bounds>>

\* Faulty: the exit status of dpkg is not looked at.
ReapAnyhow ==
  /\ pc = "reap"
  /\ child' = "none"
  /\ IF ~CanLock THEN Fail(FATAL) /\ UNCHANGED <<holder, watchers, phase>>
     ELSE /\ Lock
          /\ UNCHANGED error
          /\ \/ /\ phase = "unpack" /\ request.remove # {}
                /\ phase' = "purge" /\ pc' = "start"
             \/ /\ \/ phase = "unpack" /\ request.remove = {}
                   \/ phase = "purge" /\ request.install # {}
                /\ phase' = "configure" /\ pc' = "start"
             \/ /\ \/ phase = "configure"
                   \/ phase = "purge" /\ request.install = {}
                /\ pc' = "end" /\ UNCHANGED phase
  /\ UNCHANGED <<fileVars, count, cache, request, unlockDb, wantsInput, asker, killed, history,
                 bounds>>

\* The lock is taken back, the exit status looked at, and rc_debman_transact goes on.
Reap ==
  /\ pc = "reap"
  /\ child' = "none"
  /\ IF ~CanLock THEN Fail(FATAL) /\ UNCHANGED <<holder, watchers, phase>>
     ELSE /\ Lock
          /\ \/ child = "failed" /\ Fail(FATAL) /\ UNCHANGED phase
             \/ /\ child = "done" /\ UNCHANGED error
                /\ \/ /\ phase = "unpack" /\ request.remove # {}
                      /\ phase' = "purge" /\ pc' = "start"
                   \/ /\ \/ phase = "unpack" /\ request.remove = {}
                         \/ phase = "purge" /\ request.install # {}
                      /\ phase' = "configure" /\ pc' = "start"
                   \/ /\ \/ phase = "configure"
                         \/ phase = "purge" /\ request.install = {}
                      /\ pc' = "end" /\ UNCHANGED phase
  /\ UNCHANGED <<fileVars, count, cache, request, unlockDb, wantsInput, asker, killed, history,
                 bounds>>

\* END: the table is thrown away and the lock given back.
End ==
  /\ pc = "end"
  /\ pc' = "verify" /\ phase' = "none"
  /\ IF unlockDb
     THEN /\ moved' = "no" /\ watchers' = watchers + 1
          /\ holder' = IF holder = "self" THEN "none" ELSE holder
     ELSE UNCHANGED <<moved, watchers, holder>>
  /\ cache' = NoCache
  /\ UNCHANGED <<status, count, error, request, unlockDb, runVars, history, bounds>>

-----------------------------------------------------------------------------
\* verify_status, after a transaction and when the back end starts.

\* The lock is needed if this process does not hold it, and is given back in any
\* case if all goes well.
VerifySucceeds ==
  /\ pc \in {"verify", "init"} /\ holder \in {"self", "none"} /\ CanVerify(status)
  /\ status' = Verify(status)
  /\ moved' = "no" /\ cache' = NoCache
  /\ holder' = "none"
  /\ watchers' = IF holder = "self" THEN watchers + 1 ELSE watchers
  /\ pc' = "idle"
  /\ UNCHANGED <<count, error, request, phase, unlockDb, runVars, history, bounds>>

\* The file is broken, or cannot be written.
VerifyFails ==
  /\ pc \in {"verify", "init"} /\ holder \in {"self", "none"}
  /\ ~CanVerify(status) \/ "write" \in Failures
  /\ error' = FATAL
  /\ IF holder = "none" THEN Noted ELSE UNCHANGED <<moved, cache>>
  /\ pc' = "idle"
  /\ UNCHANGED <<status, lockVars, request, phase, unlockDb, runVars, history, bounds>>

VerifyCannotLock ==
  /\ pc \in {"verify", "init"} /\ holder = "other"
  /\ error' = IF pc = "init" THEN FATAL ELSE SetError(error, ABORT)
  /\ pc' = "idle"
  /\ UNCHANGED <<fileVars, lockVars, cache, request, phase, unlockDb, runVars, history, bounds>>

-----------------------------------------------------------------------------
\* Everything else.

OtherLocks ==
  /\ holder = "none" /\ "other" \in Failures
  /\ holder' = "other"
  /\ UNCHANGED <<fileVars, watchers, count, cache, error, request, pc, phase, unlockDb, runVars,
                 history, bounds>>

\* Another run of dpkg installs or removes a package.
OtherChanges ==
  /\ holder = "other" /\ changes < MaxChanges
  /\ \E p \in Package :
       /\ status[p] # Lost
       /\ Write([status EXCEPT ![p] =
            IF @.state = "installed" THEN S("deinstall", "ok", "config-files")
            ELSE S("install", "ok", "installed")])
  /\ changes' = changes + 1
  /\ interfered' = TRUE
  /\ UNCHANGED <<lockVars, cache, error, request, pc, phase, unlockDb, runVars, asked, removed,
                 transactions>>

OtherUnlocks ==
  /\ holder = "other" /\ holder' = "none"
  /\ UNCHANGED <<fileVars, watchers, count, cache, error, request, pc, phase, unlockDb, runVars,
                 history, bounds>>

\* This process is killed, and dpkg with it as its terminal goes.
Crash ==
  /\ "crash" \in Failures /\ pc \notin {"init", "down"}
  /\ pc' = "down"
  /\ holder' = IF holder \in {"self", "dpkg"} THEN "none" ELSE holder
  /\ watchers' = 0 /\ count' = 0 /\ cache' = NoCache /\ error' = 0
  /\ phase' = "none" /\ unlockDb' = FALSE
  /\ child' = "none" /\ wantsInput' = FALSE /\ asker' = FALSE /\ killed' = FALSE
  /\ UNCHANGED <<fileVars, request, history, bounds>>

\* rc_debman_init.
Restart ==
  /\ pc = "down"
  /\ pc' = "init" /\ moved' = "no" /\ watchers' = 1
  /\ UNCHANGED <<status, holder, count, cache, error, request, phase, unlockDb, runVars, history,
                 bounds>>

-----------------------------------------------------------------------------
Init ==
  /\ status = [p \in Package |-> IF p \in Installed0 THEN S("install", "ok", "installed")
                                 ELSE S("purge", "ok", "not-installed")]
  /\ moved = "no" /\ holder = "none" /\ watchers = 1 /\ cache = NoCache /\ count = 0
  /\ error = 0 /\ request = NoRequest /\ pc = "init" /\ phase = "none" /\ unlockDb = FALSE
  /\ child = "none" /\ wantsInput = FALSE /\ asker = FALSE /\ killed = FALSE
  /\ asked = {} /\ interfered = FALSE /\ removed = {}
  /\ transactions = 0 /\ changes = 0

\* Nobody answers a run of dpkg that asks, which goes on only if it gives up.
ChildEnds   == child = "new" /\ (ChildWorks \/ ChildFails)
ChildGoesOn == child = "asking" /\ (ChildWorks \/ ChildFails)

Transacting ==
  \/ MarkStatus \/ MarkStatusFails \/ DryRun \/ StartChild \/ ForkFails
  \/ ChildEnds \/ Poll \/ Reap \/ End
  \/ VerifySucceeds \/ VerifyFails \/ VerifyCannotLock

Next ==
  \/ PackmanLock \/ PackmanUnlock \/ QueryAll \/ Check
  \/ Start \/ Transacting \/ ChildAsks \/ ChildGoesOn
  \/ OtherLocks \/ OtherChanges \/ OtherUnlocks
  \/ Crash \/ Restart

Spec == Init /\ [][Next]_vars

\* The timers go off, dpkg and the transaction go on, and the program is started
\* again.
FairSpec == Spec /\ WF_vars(Check) /\ WF_vars(Transacting) /\ WF_vars(Restart)

-----------------------------------------------------------------------------
\* dpkg can get the lock that this process has given up for it (do_unpack,
\* do_purge, do_configure).
DpkgIsNotBlocked == pc = "run" => holder # "self"

\* After a transaction the lock is only held for a client that asked for it,
\* however the transaction ended (rc_debman_transact, verify_status).
LockIsGivenBack == Idle /\ holder = "self" => count > 0

\* While the lock is not held there is a timer to see changes by others
\* (lock_database, unlock_database).
WatchedUnlessLocked == holder # "self" /\ pc # "down" => watchers > 0

\* A transaction that went through without an error has done what it was to do,
\* unless another process has had the lock in between.
SuccessMeansDone ==
  pc = "end" /\ error = 0 /\ ~interfered /\ ~request.noact =>
    request.install \subseteq Query(status) /\ request.remove \cap Query(status) = {}

\* The run of dpkg --purge --pending removes nothing that no transaction was to
\* remove (mark_status, verify_status).
PurgedWereAsked == removed \subseteq asked

\* Marks of packages for removal are left behind, at the end of a transaction or
\* at the start of the program, only with an error (verify_status).
MarksLeftAreReported ==
  [][(pc \in {"verify", "init"} /\ pc' = "idle" /\ Marked(status') # {}) => error' # 0]_vars

\* A transaction comes to an end, even if dpkg asks for input (debman_poll_write_cb).
TransactionsEnd == pc = "mark" ~> Idle

\* The table of packages does not stay out of date, unless the lock is never given
\* back or the status file was last written within the second that was noted before
\* (database_check_func, unlock_database).
IsStale        == cache.valid /\ cache.names # Query(status)
CacheGetsFresh == []<>(holder # "self") => <>[](IsStale => moved = "unseen")

\* The table does not stay out of date (the comment "invalidate the hash table" asks for
\* it).  It fails for writes within the second that was noted.
NeverStaysStale == []<>(holder # "self") => <>[]~IsStale

-----------------------------------------------------------------------------
\* Only the final call of rc_packman_unlock unlocks the database (the change log).
LockIsHeld == Idle /\ count > 0 => holder = "self"

\* With RC_TRANSACT_FLAG_NO_ACT the transaction is not run (the change log).
NoActDoesNothing == request.noact => removed = {}

\* It is interactive packages that cause dpkg to be killed (the change log).
KilledHasAsked == killed => asker

\* A screwed up status file is fixed (the comment in rc_debman_transact).
MarksAreFixed == Idle => Marked(status) = {}

=============================================================================
