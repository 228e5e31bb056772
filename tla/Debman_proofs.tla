----------------------------- MODULE Debman_proofs -----------------------------
(***************************************************************************)
(* What holds of the Debian back end for all packages and bounds and       *)
(* whatever fails: the lock is passed on to dpkg and given back, a         *)
(* transaction without an error has done what it was to do, and nothing is *)
(* removed that was not to be removed.                                     *)
(***************************************************************************)
EXTENDS Debman, TLAPS

-----------------------------------------------------------------------------
(* The lock *)

\* Who works with the lock has it; and it was taken by the transaction, which gives it
\* back, or before by a client.
LockInv ==
  /\ TypeOK
  /\ pc \in {"start", "reap"} => phase # "none"
  /\ pc = "dry" => phase = "unpack"
  /\ pc \in {"mark", "dry", "start"} => holder = "self"
  /\ holder = "self" => pc \in {"mark", "dry", "start", "end", "verify", "idle"}
  /\ pc \in {"mark", "dry", "start", "run", "reap"} => unlockDb \/ count > 0
  /\ pc = "end" /\ holder = "self" => unlockDb \/ count > 0
  /\ pc \in {"verify", "idle"} /\ holder = "self" => count > 0
  /\ WatchedUnlessLocked

LEMMA LockInvGives == LockInv => DpkgIsNotBlocked /\ LockIsGivenBack /\ WatchedUnlessLocked
BY DEF LockInv, DpkgIsNotBlocked, LockIsGivenBack, Idle

\* What is written to the status file is one.
LEMMA FilesOf ==
  ASSUME DebmanAssumption, NEW f \in File
  PROVE  /\ \A remove : Mark(f, remove) \in File
         /\ Verify(f) \in File
         /\ \A install : Unpacked(f, install) \in File
         /\ Purged(f) \in File /\ Configured(f) \in File
         /\ \A p \in Package, s \in Stanza : [f EXCEPT ![p] = s] \in File
<1>1. \A want \in Want, flag \in Flag, state \in State : S(want, flag, state) \in Stanza
  BY DEF S, Stanza
<1>2. \A p \in Package : f[p] \in Stanza \/ f[p] = Lost
  BY DEF File
<1>3. \A remove : Mark(f, remove) \in File
  BY <1>1, <1>2 DEF Mark, File, Want, Flag, State
<1>4. Verify(f) \in File
  <2>1. \A p \in Package : Verified(f[p]) \in Stanza \cup {Lost}
    BY <1>2 DEF Verified, Stanza, Want
  <2> QED
    BY <2>1 DEF Verify, File
<1>5. /\ \A install : Unpacked(f, install) \in File
      /\ Purged(f) \in File /\ Configured(f) \in File
  BY <1>1, <1>2 DEF Unpacked, Purged, Configured, File, Want, Flag, State
<1>6. \A p \in Package, s \in Stanza : [f EXCEPT ![p] = s] \in File
  BY DEF File
<1> QED
  BY <1>3, <1>4, <1>5, <1>6

\* What a run of dpkg writes, and what it leaves when it stops halfway.
LEMMA FilesOfRuns ==
  ASSUME DebmanAssumption, status \in File, phase \in {"unpack", "purge", "configure"}
  PROVE  /\ Work \in File
         /\ \A p \in Package : Work[p] # status[p] =>
              /\ Work[p] \in Stanza
              /\ [status EXCEPT ![p] = S(Work[p].want, "ok", "half-configured")] \in File
<1>1. Work \in File
  BY FilesOf DEF Work, UnpackWork, PurgeWork, ConfigureWork
<1>2. ASSUME NEW p \in Package, Work[p] # status[p] PROVE Work[p] \in Stanza
  <2>1. \A want \in Want, flag \in Flag, state \in State : S(want, flag, state) \in Stanza
    BY DEF S, Stanza
  <2> QED
    BY <1>2, <2>1
       DEF Work, UnpackWork, PurgeWork, ConfigureWork, Unpacked, Purged, Configured, Want, Flag, State
<1>3. ASSUME NEW p \in Package, Work[p] # status[p]
      PROVE  [status EXCEPT ![p] = S(Work[p].want, "ok", "half-configured")] \in File
  <2>1. S(Work[p].want, "ok", "half-configured") \in Stanza
    BY <1>2, <1>3 DEF S, Stanza, Flag, State
  <2> QED
    BY <2>1, FilesOf
<1> QED
  BY <1>1, <1>2, <1>3

\* rc_debman_is_database_changed leaves a table.
LEMMA TableOf ==
  ASSUME TypeOK,
         \/ Noted
         \/ UNCHANGED <<moved, cache>>
         \/ moved' = "no" /\ cache' = NoCache
  PROVE  moved' \in Moves /\ cache'.valid \in BOOLEAN /\ cache'.names \subseteq Package
<1>1. moved' = moved \/ moved' = "no"
  BY DEF Noted
<1>2. moved' \in Moves
  BY <1>1 DEF TypeOK, Moves
<1>3. cache' = cache \/ cache' = NoCache
  BY DEF Noted
<1>4. NoCache.valid \in BOOLEAN /\ NoCache.names \subseteq Package
  BY DEF NoCache
<1>5. cache'.valid \in BOOLEAN /\ cache'.names \subseteq Package
  BY <1>3, <1>4 DEF TypeOK
<1> QED
  BY <1>2, <1>5

LEMMA LockInvBegins == ASSUME DebmanAssumption, Init PROVE LockInv
<1>1. status \in File
  BY DEF Init, DebmanAssumption, File, S, Stanza, Want, Flag, State
<1>2. cache.valid \in BOOLEAN /\ cache.names \subseteq Package
      /\ request.install \cap request.remove = {}
  BY DEF Init, NoCache, NoRequest
<1>3. moved \in Moves
  BY DEF Init, Moves
<1>4. TypeOK
  BY <1>1, <1>2, <1>3 DEF Init, TypeOK, DebmanAssumption
<1> QED
  BY <1>4 DEF Init, LockInv, WatchedUnlessLocked

\* The type invariant and the rest of LockInv after a step that leaves most as it is.
LEMMA LockInvKept ==
  ASSUME DebmanAssumption, LockInv, [Next]_vars
  PROVE  LockInv'
<1> USE DEF LockInv, TypeOK, WatchedUnlessLocked, Idle, fileVars, lockVars, runVars, history, bounds
<1>0. CASE UNCHANGED vars
  BY <1>0 DEF vars
<1>1. CASE PackmanLock
  BY <1>1 DEF PackmanLock, CanLock, Lock, ABORT, DebmanAssumption
<1>2. CASE PackmanUnlock
  <2>1. moved' \in Moves /\ cache'.valid \in BOOLEAN /\ cache'.names \subseteq Package
    BY <1>2, TableOf DEF PackmanUnlock, Unlock
  <2> QED
    BY <1>2, <2>1 DEF PackmanUnlock, Unlock, DebmanAssumption
<1>3. CASE QueryAll
  <2>1. cache'.valid \in BOOLEAN /\ cache'.names \subseteq Package
    BY <1>3 DEF QueryAll, Query, InState
  <2> QED
    BY <1>3, <2>1 DEF QueryAll
<1>4. CASE Check
  <2>1. moved' \in Moves /\ cache'.valid \in BOOLEAN /\ cache'.names \subseteq Package
    BY <1>4, TableOf DEF Check
  <2> QED
    BY <1>4, <2>1 DEF Check
<1>5. CASE Start
  <2>1. PICK r \in Requests : request' = r
    BY <1>5 DEF Start
  <2>2. request'.install \cap request'.remove = {}
    BY <2>1 DEF Requests
  <2> QED
    BY <1>5, <2>2 DEF Start, CanLock, Lock, ABORT
<1>6. CASE MarkStatus
  <2>1. status' \in File /\ moved' \in Moves
    BY <1>6, FilesOf DEF MarkStatus, Write, Moves
  <2> QED
    BY <1>6, <2>1 DEF MarkStatus
<1>7. CASE MarkStatusFails \/ DryRun
  BY <1>7 DEF MarkStatusFails, DryRun, Fail, SetError, ABORT
<1>8. CASE StartChild \/ ForkFails
  <2>1. moved' \in Moves /\ cache'.valid \in BOOLEAN /\ cache'.names \subseteq Package
    BY <1>8, TableOf DEF StartChild, ForkFails, Unlock
  <2> QED
    BY <1>8, <2>1 DEF StartChild, ForkFails, Unlock, Fail, SetError, FATAL
<1>9. CASE ChildWorks
  <2>1. phase \in {"unpack", "purge", "configure"}
    BY <1>9 DEF ChildWorks
  <2>2. status' \in File /\ moved' \in Moves
    BY <1>9, <2>1, FilesOfRuns DEF ChildWorks, Write, Moves
  <2> QED
    BY <1>9, <2>1, <2>2 DEF ChildWorks
<1>10. CASE ChildFails \/ Poll
  <2>1. phase \in {"unpack", "purge", "configure"}
    BY <1>10 DEF ChildFails, Poll
  <2>2. status' \in File /\ moved' \in Moves
    BY <1>10, <2>1, FilesOfRuns DEF ChildFails, Poll, Halfway, Write, Moves
  <2> QED
    BY <1>10, <2>1, <2>2 DEF ChildFails, Poll, Fail, SetError, FATAL
<1>11. CASE ChildAsks
  BY <1>11 DEF ChildAsks
<1>12. CASE Reap
  BY <1>12 DEF Reap, CanLock, Lock, Fail, SetError, FATAL
<1>13. CASE End
  <2>1. moved' \in Moves
    <3>1. moved' = "no" \/ moved' = moved
      BY <1>13 DEF End
    <3> QED
      BY <3>1 DEF Moves
  <2>2. cache'.valid \in BOOLEAN /\ cache'.names \subseteq Package
    BY <1>13 DEF End, NoCache
  <2> QED
    BY <1>13, <2>1, <2>2 DEF End
<1>14. CASE VerifySucceeds
  <2>1. status' \in File
    BY <1>14, FilesOf DEF VerifySucceeds
  <2>2. moved' \in Moves /\ cache'.valid \in BOOLEAN /\ cache'.names \subseteq Package
    BY <1>14, TableOf DEF VerifySucceeds
  <2> QED
    BY <1>14, <2>1, <2>2 DEF VerifySucceeds
<1>15. CASE VerifyFails \/ VerifyCannotLock
  <2>1. moved' \in Moves /\ cache'.valid \in BOOLEAN /\ cache'.names \subseteq Package
    BY <1>15, TableOf DEF VerifyFails, VerifyCannotLock
  <2> QED
    BY <1>15, <2>1 DEF VerifyFails, VerifyCannotLock, SetError, FATAL, ABORT
<1>16. CASE OtherLocks \/ OtherUnlocks
  BY <1>16 DEF OtherLocks, OtherUnlocks
<1>17. CASE OtherChanges
  <2>1. status' \in File /\ moved' \in Moves
    <3>1. /\ S("deinstall", "ok", "config-files") \in Stanza
          /\ S("install", "ok", "installed") \in Stanza
      BY DEF S, Stanza, Want, Flag, State
    <3>2. PICK p \in Package :
            status' = [status EXCEPT ![p] =
              IF @.state = "installed" THEN S("deinstall", "ok", "config-files")
              ELSE S("install", "ok", "installed")]
      BY <1>17 DEF OtherChanges, Write
    <3>3. status' \in File
      BY <3>1, <3>2, FilesOf
    <3>4. moved' \in Moves
      BY <1>17 DEF OtherChanges, Write, Moves
    <3> QED
      BY <3>3, <3>4
  <2> QED
    BY <1>17, <2>1 DEF OtherChanges
<1>18. CASE Crash
  BY <1>18 DEF Crash, NoCache, DebmanAssumption
<1>19. CASE Restart
  <2>1. moved' \in Moves
    BY <1>19 DEF Restart, Moves
  <2> QED
    BY <1>19, <2>1 DEF Restart
<1> QED
  BY <1>0, <1>1, <1>2, <1>3, <1>4, <1>5, <1>6, <1>7, <1>8, <1>9, <1>10, <1>11, <1>12, <1>13,
     <1>14, <1>15, <1>16, <1>17, <1>18, <1>19
     DEF Next, Transacting, ChildEnds, ChildGoesOn

\* dpkg can get the lock that was given up for it, afterwards the lock is only held for a
\* client, and while it is not held a timer watches (do_unpack, do_purge, do_configure,
\* rc_debman_transact, unlock_database).
THEOREM LockHolds ==
  ASSUME DebmanAssumption
  PROVE  Spec => [](TypeOK /\ DpkgIsNotBlocked /\ LockIsGivenBack /\ WatchedUnlessLocked)
<1>1. LockInv => TypeOK
  BY DEF LockInv
<1> QED
  BY <1>1, LockInvBegins, LockInvKept, LockInvGives, PTL DEF Spec

-----------------------------------------------------------------------------
(* What a transaction does *)

\* What is to be configured yet.
Unfinished(f) == InState(f, {"unpacked", "half-configured"})

ToBeRemoved   == request.remove \subseteq Marked(status)
ToConfigure   == request.install \subseteq Unfinished(status)
AreRemoved    == request.remove \cap (Query(status) \cup Unfinished(status)) = {}
AreConfigured == request.install \subseteq Query(status)

\* As long as nobody interferes, each phase finds what the one before has left, and a run
\* of dpkg that ends well leaves what the next one needs.
PhaseInv ==
  error = 0 /\ ~interfered /\ ~request.noact =>
    /\ pc = "mark" => request.remove \subseteq Query(status)
    /\ pc \in {"dry", "start", "run"} =>
         /\ phase = "unpack" => ToBeRemoved
         /\ phase = "purge" => ToBeRemoved /\ ToConfigure
         /\ phase = "configure" => AreRemoved /\ ToConfigure
    /\ pc = "reap" /\ child = "done" =>
         /\ phase = "unpack" => ToBeRemoved /\ ToConfigure
         /\ phase = "purge" => AreRemoved /\ ToConfigure
         /\ phase = "configure" => AreRemoved /\ AreConfigured
    /\ pc = "end" => AreRemoved /\ AreConfigured

\* What is marked some transaction was to remove.
MarksInv ==
  /\ request.install \subseteq Package /\ request.remove \subseteq Package
  /\ request.remove \subseteq asked
  /\ Marked(status) \subseteq asked
  /\ removed \subseteq asked

LEMMA PhaseInvGives == PhaseInv => SuccessMeansDone
BY DEF PhaseInv, SuccessMeansDone, AreRemoved, AreConfigured

LEMMA StanzaOf ==
  ASSUME DebmanAssumption, NEW want \in Want, NEW flag \in Flag, NEW state \in State
  PROVE  /\ S(want, flag, state) # Lost
         /\ S(want, flag, state).want = want /\ S(want, flag, state).state = state
<1>1. S(want, flag, state) \in Stanza
  BY DEF S, Stanza
<1>2. Lost \notin Stanza
  BY DEF DebmanAssumption
<1> QED
  BY <1>1, <1>2 DEF S

\* What marks and dpkg do to the packages that are to be installed and removed.
LEMMA MarkLeads ==
  ASSUME DebmanAssumption, NEW f \in File, NEW remove, remove \subseteq Query(f)
  PROVE  remove \subseteq Marked(Mark(f, remove))
<1>1. S("purge", "ok", "installed").want = "purge" /\ S("purge", "ok", "installed").state = "installed"
      /\ S("purge", "ok", "installed") # Lost
  BY StanzaOf DEF Want, Flag, State
<1> QED
  BY <1>1 DEF Mark, Query, InState, Marked, IsMarked

LEMMA UnpackLeads ==
  ASSUME DebmanAssumption, NEW f \in File, NEW install \in SUBSET Package,
         NEW remove \in SUBSET Package, install \cap remove = {}, remove \subseteq Marked(f)
  PROVE  /\ remove \subseteq Marked(Unpacked(f, install))
         /\ install \subseteq Unfinished(Unpacked(f, install))
<1> USE DEF Query, InState, Marked, IsMarked, Unfinished
<1>1. \A p \in Package : Unpacked(f, install)[p] =
        IF p \in install THEN S("install", "ok", "unpacked") ELSE f[p]
  BY DEF Unpacked
<1>2. S("install", "ok", "unpacked") # Lost /\ S("install", "ok", "unpacked").state = "unpacked"
  BY StanzaOf DEF Want, Flag, State
<1>3. install \subseteq Unfinished(Unpacked(f, install))
  BY <1>1, <1>2
<1>4. remove \subseteq Marked(Unpacked(f, install))
  BY <1>1
<1> QED
  BY <1>3, <1>4

LEMMA PurgeLeads ==
  ASSUME DebmanAssumption, NEW f \in File, NEW install \in SUBSET Package,
         NEW remove \in SUBSET Package, remove \subseteq Marked(f),
         install \subseteq Unfinished(f)
  PROVE  /\ remove \cap (Query(Purged(f)) \cup Unfinished(Purged(f))) = {}
         /\ install \subseteq Unfinished(Purged(f))
<1> USE DEF Query, InState, Marked, IsMarked, Unfinished
<1>1. \A p \in Package : Purged(f)[p] =
        IF p \in Marked(f) THEN S("purge", "ok", "not-installed") ELSE f[p]
  BY DEF Purged
<1>2. S("purge", "ok", "not-installed").state = "not-installed"
  BY StanzaOf DEF Want, Flag, State
<1>3. \A p \in install : p \in Package /\ p \notin Marked(f)
  OBVIOUS
<1>4. install \subseteq Unfinished(Purged(f))
  BY <1>1, <1>3
<1>5. \A p \in remove : Purged(f)[p].state = "not-installed"
  BY <1>1, <1>2
<1> QED
  BY <1>4, <1>5

LEMMA ConfigureLeads ==
  ASSUME DebmanAssumption, NEW f \in File, NEW install \in SUBSET Package,
         NEW remove \in SUBSET Package, remove \cap (Query(f) \cup Unfinished(f)) = {},
         install \subseteq Unfinished(f)
  PROVE  /\ remove \cap (Query(Configured(f)) \cup Unfinished(Configured(f))) = {}
         /\ install \subseteq Query(Configured(f))
<1>1. \A p \in Package : Configured(f)[p] =
        IF p \in Unfinished(f) THEN S("install", "ok", "installed") ELSE f[p]
  BY DEF Configured, Unfinished
<1>2. S("install", "ok", "installed") # Lost /\ S("install", "ok", "installed").state = "installed"
  BY StanzaOf DEF Want, Flag, State
<1>3. install \subseteq Query(Configured(f))
  BY <1>1, <1>2 DEF Query, InState
<1>4. \A p \in remove : p \notin Query(Configured(f)) \cup Unfinished(Configured(f))
  <2> TAKE p \in remove
  <2>1. p \in Package /\ p \notin Query(f) /\ p \notin Unfinished(f)
    OBVIOUS
  <2>2. Configured(f)[p] = f[p]
    BY <1>1, <2>1
  <2> QED
    BY <2>1, <2>2 DEF Query, InState, Unfinished
<1> QED
  BY <1>3, <1>4

LEMMA PhaseInvBegins == ASSUME DebmanAssumption, Init PROVE PhaseInv
BY DEF Init, PhaseInv

\* A step that is none of the transaction's own leaves what it has done.
LEMMA PhaseUnmoved ==
  ASSUME PhaseInv, UNCHANGED <<status, request, interfered>>,
         \/ UNCHANGED <<pc, phase, child, error>>
         \/ pc' \in {"init", "idle", "verify", "down"}
         \/ error' # 0
  PROVE  PhaseInv'
<1>1. CASE UNCHANGED <<pc, phase, child, error>>
  BY <1>1 DEF PhaseInv, ToBeRemoved, ToConfigure, AreRemoved, AreConfigured
<1>2. CASE pc' \in {"init", "idle", "verify", "down"}
  BY <1>2 DEF PhaseInv
<1>3. CASE error' # 0
  BY <1>3 DEF PhaseInv
<1> QED
  BY <1>1, <1>2, <1>3

LEMMA PhaseInvKept ==
  ASSUME DebmanAssumption, LockInv, PhaseInv, MarksInv, [Next]_vars
  PROVE  PhaseInv'
<1> USE DEF fileVars, lockVars, runVars, history, bounds
<1>1. /\ status \in File /\ error \in 0..2
      /\ request.install \in SUBSET Package /\ request.remove \in SUBSET Package
      /\ request.install \cap request.remove = {}
  BY DEF LockInv, TypeOK, MarksInv
<1>2. CASE \/ UNCHANGED vars
           \/ PackmanLock \/ PackmanUnlock \/ QueryAll \/ Check
           \/ MarkStatusFails \/ ForkFails
           \/ OtherLocks \/ OtherUnlocks \/ Restart \/ Crash
           \/ VerifyFails \/ VerifyCannotLock
  <2>1. UNCHANGED <<status, request, interfered>>
    BY <1>2 DEF vars, PackmanLock, PackmanUnlock, QueryAll, Check, MarkStatusFails, ForkFails,
       OtherLocks, OtherUnlocks, Restart, Crash, VerifyFails, VerifyCannotLock
  <2>2. \/ UNCHANGED <<pc, phase, child, error>>
        \/ pc' \in {"init", "idle", "verify", "down"}
        \/ error' # 0
    BY <1>1, <1>2
       DEF vars, PackmanLock, PackmanUnlock, QueryAll, Check, MarkStatusFails, ForkFails,
           OtherLocks, OtherUnlocks, Restart, Crash, VerifyFails, VerifyCannotLock,
           Fail, SetError, ABORT, FATAL, Idle
  <2> QED
    BY <2>1, <2>2, PhaseUnmoved
<1>3. CASE Start
  <2>1. pc' = "mark" \/ error' # 0
    BY <1>3 DEF Start, ABORT
  <2>2. request'.remove \subseteq Query(status')
    BY <1>3 DEF Start
  <2> QED
    BY <2>1, <2>2 DEF PhaseInv
<1>4. CASE MarkStatus
  <2>1. /\ pc = "mark" /\ status' = Mark(status, request.remove)
        /\ UNCHANGED <<request, error, interfered>>
        /\ IF request.install # {} THEN pc' = "dry" /\ phase' = "unpack"
           ELSE pc' = "start" /\ phase' = "purge"
    BY <1>4 DEF MarkStatus, Write, Moves
  <2>2. SUFFICES ASSUME error = 0, ~interfered, ~request.noact
                 PROVE  PhaseInv'
    BY <2>1 DEF PhaseInv
  <2>3. request.remove \subseteq Query(status)
    BY <2>1, <2>2 DEF PhaseInv
  <2>4. ToBeRemoved'
    BY <1>1, <2>1, <2>3, MarkLeads DEF ToBeRemoved
  <2> QED
    BY <2>1, <2>4 DEF PhaseInv, ToConfigure
<1>5. CASE DryRun
  <2>1. /\ pc = "dry" /\ UNCHANGED <<status, request, interfered, phase>>
        /\ (pc' = "start" /\ error' = error) \/ error' # 0
    BY <1>1, <1>5 DEF DryRun, Fail, SetError, ABORT
  <2> QED
    BY <2>1 DEF PhaseInv, ToBeRemoved, ToConfigure, AreRemoved, AreConfigured
<1>6. CASE StartChild
  <2>1. /\ pc = "start" /\ pc' = "run"
        /\ UNCHANGED <<status, request, interfered, phase, error>>
    BY <1>6 DEF StartChild
  <2> QED
    BY <2>1 DEF PhaseInv, ToBeRemoved, ToConfigure, AreRemoved, AreConfigured
<1>7. CASE ChildWorks
  <2>1. /\ pc = "run" /\ pc' = "reap" /\ UNCHANGED <<request, interfered, phase, error>>
        /\ status' = Work
    BY <1>7 DEF ChildWorks, Write, Moves
  <2>2. phase \in {"unpack", "purge", "configure"}
    BY <2>1 DEF LockInv, TypeOK
  <2>3. SUFFICES ASSUME error = 0, ~interfered, ~request.noact
                 PROVE  PhaseInv'
    BY <2>1 DEF PhaseInv
  <2>4. CASE phase = "unpack"
    <3>1. status' = Unpacked(status, request.install)
      BY <2>1, <2>3, <2>4 DEF Work, UnpackWork
    <3>2. request.remove \subseteq Marked(status)
      BY <2>1, <2>3, <2>4 DEF PhaseInv, ToBeRemoved
    <3>3. ToBeRemoved' /\ ToConfigure'
      BY <1>1, <2>1, <3>1, <3>2, UnpackLeads DEF ToBeRemoved, ToConfigure
    <3> QED
      BY <2>1, <2>4, <3>3 DEF PhaseInv
  <2>5. CASE phase = "purge"
    <3>1. status' = Purged(status)
      BY <2>1, <2>5 DEF Work, PurgeWork
    <3>2. request.remove \subseteq Marked(status) /\ request.install \subseteq Unfinished(status)
      BY <2>1, <2>3, <2>5 DEF PhaseInv, ToBeRemoved, ToConfigure
    <3>3. LET f == Purged(status)
          IN  /\ request.remove \cap (Query(f) \cup Unfinished(f)) = {}
              /\ request.install \subseteq Unfinished(f)
      BY <1>1, <3>2, PurgeLeads
    <3>4. AreRemoved' /\ ToConfigure'
      BY <2>1, <3>1, <3>3 DEF ToConfigure, AreRemoved
    <3> QED
      BY <2>1, <2>5, <3>4 DEF PhaseInv
  <2>6. CASE phase = "configure"
    <3>1. status' = Configured(status)
      BY <2>1, <2>6 DEF Work, ConfigureWork
    <3>2. /\ request.remove \cap (Query(status) \cup Unfinished(status)) = {}
          /\ request.install \subseteq Unfinished(status)
      BY <2>1, <2>3, <2>6 DEF PhaseInv, AreRemoved, ToConfigure
    <3>3. LET f == Configured(status)
          IN  /\ request.remove \cap (Query(f) \cup Unfinished(f)) = {}
              /\ request.install \subseteq Query(f)
      BY <1>1, <3>2, ConfigureLeads
    <3>4. AreRemoved' /\ AreConfigured'
      BY <2>1, <3>1, <3>3 DEF AreConfigured, AreRemoved
    <3> QED
      BY <2>1, <2>6, <3>4 DEF PhaseInv
  <2> QED
    BY <2>2, <2>4, <2>5, <2>6
<1>8. CASE ChildFails
  <2>1. pc' = "reap" /\ child' = "failed"
    BY <1>8 DEF ChildFails
  <2> QED
    BY <2>1 DEF PhaseInv
<1>9. CASE ChildAsks
  <2>1. /\ pc = "run" /\ UNCHANGED <<status, request, interfered, phase, pc, error>>
    BY <1>9 DEF ChildAsks
  <2> QED
    BY <2>1 DEF PhaseInv, ToBeRemoved, ToConfigure, AreRemoved, AreConfigured
<1>10. CASE Poll
  <2>1. error' # 0
    BY <1>1, <1>10 DEF Poll, Fail, SetError, FATAL
  <2> QED
    BY <2>1 DEF PhaseInv
<1>11. CASE Reap
  <2>1. pc = "reap" /\ UNCHANGED <<status, request, interfered>>
    BY <1>11 DEF Reap
  <2>2. CASE error' # 0
    BY <2>2 DEF PhaseInv
  <2>3. CASE error' = 0
    <3>1. /\ child = "done" /\ error' = error
          /\ \/ /\ phase = "unpack" /\ request.remove # {}
                /\ phase' = "purge" /\ pc' = "start"
             \/ /\ \/ phase = "unpack" /\ request.remove = {}
                   \/ phase = "purge" /\ request.install # {}
                /\ phase' = "configure" /\ pc' = "start"
             \/ /\ \/ phase = "configure"
                   \/ phase = "purge" /\ request.install = {}
                /\ pc' = "end"
      BY <1>1, <1>11, <2>3 DEF Reap, Fail, SetError, FATAL
    <3>2. SUFFICES ASSUME ~interfered, ~request.noact PROVE PhaseInv'
      BY <2>1 DEF PhaseInv
    <3>3. /\ phase = "unpack" => ToBeRemoved /\ ToConfigure
          /\ phase = "purge" => AreRemoved /\ ToConfigure
          /\ phase = "configure" => AreRemoved /\ AreConfigured
      BY <2>1, <2>3, <3>1, <3>2 DEF PhaseInv
    <3> QED
      BY <2>1, <3>1, <3>3 DEF PhaseInv, ToBeRemoved, ToConfigure, AreRemoved, AreConfigured
  <2> QED
    BY <2>2, <2>3
<1>12. CASE End \/ VerifySucceeds
  <2>1. pc' \in {"verify", "idle"}
    BY <1>12 DEF End, VerifySucceeds
  <2> QED
    BY <2>1 DEF PhaseInv
<1>13. CASE OtherChanges
  BY <1>13 DEF OtherChanges, PhaseInv
<1> QED
  BY <1>2, <1>3, <1>4, <1>5, <1>6, <1>7, <1>8, <1>9, <1>10, <1>11, <1>12, <1>13
     DEF Next, Transacting, ChildEnds, ChildGoesOn

\* What is marked in a file that is written was marked or is to be removed.
LEMMA MarksOf ==
  ASSUME DebmanAssumption, NEW f \in File
  PROVE  /\ \A remove : Marked(Mark(f, remove)) \subseteq Marked(f) \cup remove
         /\ Marked(Verify(f)) = {}
         /\ \A install : Marked(Unpacked(f, install)) \subseteq Marked(f)
         /\ Marked(Purged(f)) \subseteq Marked(f) /\ Marked(Configured(f)) \subseteq Marked(f)
<1> USE DEF Marked, IsMarked
<1>1. \A want \in Want, flag \in Flag, state \in State :
        /\ S(want, flag, state).want = want /\ S(want, flag, state).state = state
  BY DEF S
<1>2. \A remove : Marked(Mark(f, remove)) \subseteq Marked(f) \cup remove
  BY DEF Mark
<1>3. Marked(Verify(f)) = {}
  <2>1. ASSUME NEW p \in Package PROVE ~IsMarked(Verified(f[p]))
    <3>1. f[p] \in Stanza \/ f[p] = Lost
      BY DEF File
    <3> QED
      BY <3>1 DEF Verified, Stanza, Want, State
  <2>2. \A p \in Package : Verify(f)[p] = Verified(f[p])
    BY DEF Verify
  <2> QED
    BY <2>1, <2>2
<1>4. \A install : Marked(Unpacked(f, install)) \subseteq Marked(f)
  BY <1>1 DEF Unpacked, Want, Flag, State
<1>5. Marked(Purged(f)) \subseteq Marked(f)
  BY <1>1 DEF Purged, Want, Flag, State
<1>6. Marked(Configured(f)) \subseteq Marked(f)
  BY <1>1 DEF Configured, Want, Flag, State
<1> QED
  BY <1>2, <1>3, <1>4, <1>5, <1>6

LEMMA MarksOfOne ==
  ASSUME status \in File, NEW p \in Package, NEW s, ~IsMarked(s), status' = [status EXCEPT ![p] = s]
  PROVE  Marked(status') \subseteq Marked(status)
BY DEF Marked, File

LEMMA MarksInvBegins == ASSUME DebmanAssumption, Init PROVE MarksInv
<1>1. \A p \in Package : ~IsMarked(status[p])
  BY DEF Init, IsMarked, S
<1> QED
  BY <1>1 DEF Init, MarksInv, NoRequest, Marked

\* A run of dpkg marks nothing, and of what is installed it removes what is marked.
LEMMA MarksOfRuns ==
  ASSUME DebmanAssumption, status \in File, phase \in {"unpack", "purge", "configure"}
  PROVE  /\ Marked(Work) \subseteq Marked(status)
         /\ Query(status) \cap InState(Work, {"not-installed"}) \subseteq Marked(status)
         /\ Halfway => Marked(status') \subseteq Marked(status)
<1>1. Marked(Work) \subseteq Marked(status)
  BY MarksOf DEF Work, UnpackWork, PurgeWork, ConfigureWork
<1>2. Query(status) \cap InState(Work, {"not-installed"}) \subseteq Marked(status)
  <2> SUFFICES ASSUME NEW p \in Package, status[p] # Lost, status[p].state = "installed",
                      Work[p].state = "not-installed"
               PROVE  IsMarked(status[p])
    BY DEF Query, InState, Marked
  <2>1. \A want \in Want, flag \in Flag, state \in State : S(want, flag, state).state = state
    BY DEF S
  <2> QED
    BY <2>1 DEF Work, UnpackWork, PurgeWork, ConfigureWork, Unpacked, Purged, Configured,
                Want, Flag, State
<1>3. ASSUME Halfway PROVE Marked(status') \subseteq Marked(status)
  <2>1. CASE UNCHANGED fileVars
    BY <2>1 DEF fileVars, Marked
  <2>2. CASE \E p \in Package :
               Write([status EXCEPT ![p] = S(Work[p].want, "ok", "half-configured")])
    <3>1. PICK p \in Package :
            status' = [status EXCEPT ![p] = S(Work[p].want, "ok", "half-configured")]
      BY <2>2 DEF Write
    <3>2. ~IsMarked(S(Work[p].want, "ok", "half-configured"))
      BY DEF IsMarked, S
    <3> QED
      BY <3>1, <3>2, MarksOfOne
  <2> QED
    BY <1>3, <2>1, <2>2 DEF Halfway
<1> QED
  BY <1>1, <1>2, <1>3

LEMMA MarksInvKept ==
  ASSUME DebmanAssumption, LockInv, MarksInv, [Next]_vars
  PROVE  MarksInv'
<1> USE DEF fileVars, lockVars, runVars, history, bounds
<1>1. status \in File /\ (pc \in {"run", "start", "reap"} => phase \in {"unpack", "purge", "configure"})
  BY DEF LockInv, TypeOK
<1>2. CASE UNCHANGED <<status, request, asked, removed>>
  BY <1>2 DEF MarksInv, Marked
<1>3. CASE Start
  <2>1. PICK r \in Requests : /\ request' = r /\ asked' = asked \cup r.remove
    BY <1>3 DEF Start
  <2>2. r.install \subseteq Package /\ r.remove \subseteq Package
    BY DEF Requests
  <2>3. status' = status /\ removed' = {}
    BY <1>3 DEF Start
  <2> QED
    BY <2>1, <2>2, <2>3 DEF MarksInv, Marked
<1>4. CASE MarkStatus
  <2>1. /\ status' = Mark(status, request.remove) /\ UNCHANGED <<request, asked, removed>>
    BY <1>4 DEF MarkStatus, Write, Moves
  <2>2. Marked(status') \subseteq asked
    BY <1>1, <2>1, MarksOf DEF MarksInv
  <2> QED
    BY <2>1, <2>2 DEF MarksInv
<1>5. CASE ChildWorks
  <2>1. /\ phase \in {"unpack", "purge", "configure"}
        /\ status' = Work /\ UNCHANGED <<request, asked>>
        /\ removed' = removed \cup (Query(status) \cap InState(Work, {"not-installed"}))
    BY <1>1, <1>5 DEF ChildWorks, Write, Moves
  <2>2. Marked(status') \subseteq asked /\ removed' \subseteq asked
    BY <1>1, <2>1, MarksOfRuns DEF MarksInv
  <2> QED
    BY <2>1, <2>2 DEF MarksInv
<1>6. CASE ChildFails \/ Poll
  <2>1. /\ phase \in {"unpack", "purge", "configure"}
        /\ UNCHANGED <<request, asked, removed>>
        /\ Halfway \/ UNCHANGED status
    BY <1>1, <1>6 DEF ChildFails, Poll
  <2>2. Marked(status') \subseteq asked
    BY <1>1, <2>1, MarksOfRuns DEF MarksInv, Marked
  <2> QED
    BY <2>1, <2>2 DEF MarksInv
<1>7. CASE VerifySucceeds
  <2>1. status' = Verify(status) /\ UNCHANGED <<request, asked, removed>>
    BY <1>7 DEF VerifySucceeds
  <2>2. Marked(status') = {}
    BY <1>1, <2>1, MarksOf
  <2> QED
    BY <2>1, <2>2 DEF MarksInv
<1>8. CASE OtherChanges
  <2>1. PICK p \in Package :
          status' = [status EXCEPT ![p] =
            IF @.state = "installed" THEN S("deinstall", "ok", "config-files")
            ELSE S("install", "ok", "installed")]
    BY <1>8 DEF OtherChanges, Write
  <2>2. /\ ~IsMarked(S("deinstall", "ok", "config-files"))
        /\ ~IsMarked(S("install", "ok", "installed"))
    BY DEF IsMarked, S
  <2>3. Marked(status') \subseteq Marked(status)
    BY <1>1, <2>1, <2>2, MarksOfOne
  <2>4. UNCHANGED <<request, asked, removed>>
    BY <1>8 DEF OtherChanges
  <2> QED
    BY <2>3, <2>4 DEF MarksInv
<1> QED
  BY <1>2, <1>3, <1>4, <1>5, <1>6, <1>7, <1>8
     DEF Next, Transacting, ChildEnds, ChildGoesOn, vars, PackmanLock, PackmanUnlock, QueryAll,
         Check, MarkStatusFails, DryRun, StartChild, ForkFails, ChildAsks, Reap, End, VerifyFails,
         VerifyCannotLock, OtherLocks, OtherUnlocks, Crash, Restart

\* A transaction without an error has done what it was to do, and nothing is ever removed
\* that no transaction was to remove (rc_debman_transact, mark_status, verify_status).
THEOREM OnlyWhatIsAsked ==
  ASSUME DebmanAssumption
  PROVE  Spec => [](SuccessMeansDone /\ PurgedWereAsked)
<1>1. Init => LockInv /\ PhaseInv /\ MarksInv
  BY LockInvBegins, PhaseInvBegins, MarksInvBegins
<1>2. LockInv /\ PhaseInv /\ MarksInv /\ [Next]_vars => (LockInv /\ PhaseInv /\ MarksInv)'
  BY LockInvKept, PhaseInvKept, MarksInvKept
<1>3. LockInv /\ PhaseInv /\ MarksInv => SuccessMeansDone /\ PurgedWereAsked
  BY PhaseInvGives DEF MarksInv, PurgedWereAsked
<1> QED
  BY <1>1, <1>2, <1>3, PTL DEF Spec

\* The step of MarksLeftAreReported.
LEMMA MarksLeftStep ==
  ASSUME DebmanAssumption, LockInv, [Next]_vars
  PROVE  pc \in {"verify", "init"} /\ pc' = "idle" /\ Marked(status') # {} => error' # 0
<1> SUFFICES ASSUME pc \in {"verify", "init"}, pc' = "idle", Marked(status') # {}
             PROVE  error' # 0
  OBVIOUS
<1>1. VerifySucceeds \/ VerifyFails \/ VerifyCannotLock
  BY DEF Next, Transacting, ChildEnds, ChildGoesOn, vars, fileVars, lockVars, runVars, history,
     bounds, Idle, PackmanLock, PackmanUnlock,
     QueryAll, Check, Start, MarkStatus, MarkStatusFails, DryRun, StartChild, ForkFails, ChildWorks,
     ChildFails, ChildAsks, Poll, Reap, End, OtherLocks, OtherUnlocks, OtherChanges, Crash, Restart
<1>2. ~VerifySucceeds
  BY MarksOf DEF VerifySucceeds, LockInv, TypeOK
<1>3. error \in 0..2
  BY DEF LockInv, TypeOK
<1> QED
  BY <1>1, <1>2, <1>3 DEF VerifyFails, VerifyCannotLock, SetError, FATAL, ABORT

\* Marks that are left behind are reported (verify_status).
THEOREM MarksReported == ASSUME DebmanAssumption PROVE Spec => MarksLeftAreReported
BY LockInvBegins, LockInvKept, MarksLeftStep, PTL DEF Spec, MarksLeftAreReported

=============================================================================
