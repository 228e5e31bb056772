------------------------------- MODULE MCPackman -------------------------------
(***************************************************************************)
(* Instances of the modules about the system world and the package         *)
(* managers behind it.  One part runs in each behaviour, and the others    *)
(* stay as they are at first.                                              *)
(***************************************************************************)
EXTENDS Naturals, Sequences, FiniteSets

CONSTANTS
  mounted, duplicate,    \* system worlds
  tool, conf,            \* packages
  a1, a2, b, c,          \* packages, the first two of one name
  none,                  \* nothing
  Parts,                 \* what runs
  SystemWorlds,          \* of SystemWorld, the mounted world and its duplicates,
  MaxAlone,              \* a bound on changes and seconds when there is one world,
  MaxSystem, MaxLock,    \* and bounds on them and on locks when there are more
  MaxCalls, MaxDepth,    \* of Packman, bounds on locks and on calls within calls
  DebPackage, DebInstalled,               \* of Debman
  MaxTransactions, MaxOthers, MaxHeld,    \* and bounds on what happens
  RpmPackage, RpmName, RpmObsoletes, RpmInstallOnly       \* of RpmTransact

VARIABLES
  part,
  db, mtime, clock, yast, busy, opened, clean, seen, timers, lockCount, alive, loaded,
  todo, missed,                                             \* SystemWorld
  calls, real, failure, stack, reports,                     \* Packman
  status, moved, holder, watchers, cache, count, error, request, pc, phase, unlockDb,
  child, wantsInput, asked, asker, killed, interfered, removed,
  transactions, changes,                                    \* Debman
  file, stamp, noted, unseen, table, valid, readers, failed,        \* StatusReader
  rest, piece, state, taken, given, uses,                   \* LineBuf
  installed, open, locked, adds, erases, at, wanted, job, outcome  \* RpmTransact

-----------------------------------------------------------------------------
\* A system world by itself, with locks of other processes and YaST; and one with a
\* duplicate and clients, when everything happens at a bad time.
Alone == INSTANCE SystemWorld WITH
  World <- {mounted}, Clients <- {}, Faults <- {"busy"}, MaxChange <- MaxAlone, MaxTime <- MaxAlone,
  MaxLock <- 0, NONE <- none, status <- opened, noted <- seen, watchers <- timers, job <- todo
System == INSTANCE SystemWorld WITH
  World <- SystemWorlds, Clients <- {"lock", "query", "transact", "duplicate"},
  Faults <- {"read", "busy", "during", "second"}, MaxChange <- MaxSystem, MaxTime <- MaxSystem,
  NONE <- none, status <- opened, noted <- seen, watchers <- timers, job <- todo

\* The front end with handlers that query, and with none.
Front == INSTANCE Packman WITH
  Handlers <- {"query"}, MaxCount <- MaxCalls, count <- calls, error <- failure
Unhandled == INSTANCE Packman WITH
  Handlers <- {}, MaxCount <- MaxCalls, count <- calls, error <- failure

-----------------------------------------------------------------------------
\* Transactions of any kind, or one that does act.
Debman == INSTANCE Debman WITH
  Package <- DebPackage, Lost <- none, Installed0 <- DebInstalled, Flags <- BOOLEAN,
  Failures <- {"write", "dry", "fork", "dpkg", "input", "crash", "other"},
  MaxChanges <- MaxOthers, MaxLocks <- MaxHeld
Once == INSTANCE Debman WITH
  Package <- DebPackage, Lost <- none, Installed0 <- DebInstalled, Flags <- {FALSE},
  Failures <- {"write", "dry", "fork", "dpkg", "input", "crash", "other"},
  MaxTransactions <- 1, MaxChanges <- MaxOthers, MaxLocks <- MaxHeld

\* What dpkg writes about two packages.
Plain(kind) == [kind |-> kind]
Stanza(n, kind) ==
  <<[kind |-> "package", name |-> n], Plain(kind), Plain("field"), Plain("blank")>>

StatusFiles ==
  {<<>>, Stanza(tool, "installed"), Stanza(conf, "installed")}
    \cup {Stanza(tool, k) \o Stanza(conf, l) : k, l \in {"installed", "removed"}}

Status == INSTANCE StatusReader WITH
  Name <- {tool, conf}, NoName <- none, Files <- StatusFiles, Nested <- FALSE,
  MaxStamp <- 3, MaxDepth <- 1
Nested == INSTANCE StatusReader WITH
  Name <- {tool, conf}, NoName <- none, Files <- StatusFiles, Nested <- TRUE,
  MaxStamp <- 2, MaxDepth <- 2

\* All texts of up to five characters, with x for any character but a newline (n) or a
\* carriage return (r).
Lines == INSTANCE LineBuf WITH
  Texts <- UNION {[1..n -> {"x", "r", "n"}] : n \in 0..5}, BUF_SIZE <- 3, MaxUse <- 1,
  part <- piece

-----------------------------------------------------------------------------
\* Two versions of one package, of which the newer and another one obsolete a third; the
\* other one may be a package that is installed beside others.
MCRpmName == [p \in {a1, a2, b, c} |-> CASE p \in {a1, a2} -> "a" [] p = b -> "b" [] p = c -> "c"]
MCRpmObsoletes == {<<a2, b>>, <<c, b>>}

\* With rpm 4.1, with an earlier one under a lock of the client, and with rpm 4.1 under
\* such a lock.

Rpm == INSTANCE RpmTransact WITH
  Package <- RpmPackage, NameOf <- RpmName, Obsoletes <- RpmObsoletes,
  InstallOnly <- RpmInstallOnly, Keeps <- TRUE,
  Locks <- FALSE, asked <- wanted
RpmOld == INSTANCE RpmTransact WITH
  Package <- RpmPackage, NameOf <- RpmName, Obsoletes <- RpmObsoletes,
  InstallOnly <- RpmInstallOnly, Keeps <- FALSE,
  Locks <- TRUE, asked <- wanted
RpmLocked == INSTANCE RpmTransact WITH
  Package <- RpmPackage, NameOf <- RpmName, Obsoletes <- RpmObsoletes,
  InstallOnly <- RpmInstallOnly, Keeps <- TRUE,
  Locks <- TRUE, asked <- wanted

ASSUME PartsAssumption ==
       /\ mounted \in SystemWorlds /\ MaxTransactions # 0
       /\ Alone!SystemAssumption /\ System!SystemAssumption /\ Front!PackmanAssumption
       /\ Unhandled!PackmanAssumption
       /\ Debman!DebmanAssumption /\ Once!DebmanAssumption
       /\ Status!StatusReaderAssumption /\ Nested!StatusReaderAssumption
       /\ Lines!LineBufAssumption
       /\ Rpm!RpmTransactAssumption /\ RpmOld!RpmTransactAssumption
       /\ RpmLocked!RpmTransactAssumption

-----------------------------------------------------------------------------
systemVars == <<db, mtime, clock, yast, busy, opened, clean, seen, timers, lockCount, alive,
                loaded, todo, missed>>
frontVars  == <<calls, real, failure, stack, reports>>
debmanVars == <<status, moved, holder, watchers, cache, count, error, request, pc, phase,
                unlockDb, child, wantsInput, asked, asker, killed, interfered, removed,
                transactions, changes>>
statusVars == <<file, stamp, noted, unseen, table, valid, readers, failed>>
lineVars   == <<rest, piece, state, taken, given, uses>>
rpmVars    == <<installed, open, locked, adds, erases, at, wanted, job, outcome>>

vars == <<part, systemVars, frontVars, debmanVars, statusVars, lineVars, rpmVars>>

Init ==
  /\ part \in Parts
  /\ IF part = "system alone" THEN Alone!Init ELSE System!Init
  /\ Front!Init /\ Debman!Init /\ Status!Init /\ Lines!Init /\ Rpm!Init
  /\ part \in {"status", "status nested"} \/ file = <<>>
  /\ part = "lines" \/ rest = <<>>
  /\ part \in {"rpm", "rpm before 4.1 locked", "rpm locked"} \/ installed = {}

Next ==
  \/ /\ \/ part = "system alone" /\ Alone!Next
        \/ part = "system" /\ System!Next
     /\ UNCHANGED <<part, frontVars, debmanVars, statusVars, lineVars, rpmVars>>
  \/ /\ \/ part = "front" /\ Front!Next
        \/ part = "front unhandled" /\ Unhandled!Next
     /\ UNCHANGED <<part, systemVars, debmanVars, statusVars, lineVars, rpmVars>>
  \/ /\ \/ part = "debman" /\ Debman!Next
        \/ part = "debman once" /\ Once!Next
     /\ UNCHANGED <<part, systemVars, frontVars, statusVars, lineVars, rpmVars>>
  \/ /\ \/ part = "status" /\ Status!Next
        \/ part = "status nested" /\ Nested!Next
     /\ UNCHANGED <<part, systemVars, frontVars, debmanVars, lineVars, rpmVars>>
  \/ /\ part = "lines" /\ Lines!Next
     /\ UNCHANGED <<part, systemVars, frontVars, debmanVars, statusVars, rpmVars>>
  \/ /\ \/ part = "rpm" /\ Rpm!Next
        \/ part = "rpm before 4.1 locked" /\ RpmOld!Next
        \/ part = "rpm locked" /\ RpmLocked!Next
     /\ UNCHANGED <<part, systemVars, frontVars, debmanVars, statusVars, lineVars>>

Spec == Init /\ [][Next]_vars

\* The fairness of SystemWorld, Debman and StatusReader, for the parts that are checked to
\* get on.
FairSpec ==
  /\ Spec
  /\ WF_systemVars(part = "system alone" /\ Alone!Loading)
  /\ SF_systemVars(part = "system alone" /\ Alone!Watch)
  /\ WF_systemVars(part = "system alone" /\ (Alone!TransactFails \/ Alone!TransactDone))
  /\ WF_debmanVars(part = "debman once" /\ Once!Check)
  /\ WF_debmanVars(part = "debman once" /\ Once!Transacting)
  /\ WF_debmanVars(part = "debman once" /\ Once!Restart)
  /\ WF_statusVars(part = "status" /\ Status!Read)
  /\ WF_statusVars(part = "status" /\ Status!ReadDone)
  /\ WF_statusVars(part = "status" /\ Status!Return)
  /\ WF_statusVars(part = "status" /\ Status!Check)

-----------------------------------------------------------------------------
\* A system world by itself loses no change of the database; with duplicates, clients and
\* failures changes are lost only in ways that have a name (rc_rpmman_is_database_changed,
\* close_database, rc_world_system_sync).
ChangesAreSeen ==
  /\ part = "system alone" => Alone!NoChangeIsLost
  /\ System!LossesAreExplained

\* A lock lasts until it is given back, whatever is done under it, and unless the database
\* is open exactly one timer watches it (open_database, the close_db flags).
LockedOrWatched ==
  /\ part = "system" => System!TypeOK
  /\ System!LockIsHeld /\ System!WatchedByOne

\* What differs from the database behind it is brought up to date: a system world that
\* reads it alone, the table of the Debian back end and the one read from the status file.
\* Of the status file a change is excepted that comes in the second of the change noted
\* last: the code compares whole seconds and never sees it (the watchers of changes).
GetsFresh ==
  /\ part = "system alone" => Alone!GetsFresh
  /\ part = "debman once" => Once!CacheGetsFresh
  /\ part = "status" => Status!GetsFresh

-----------------------------------------------------------------------------
\* The front end is a counting lock over the lock of the back end, whenever handlers of its
\* signals query (rc_packman_lock, rc_packman_unlock).
IsCountingLock == Front!IsCountingLock

-----------------------------------------------------------------------------
\* dpkg can get the lock that was given up for it, afterwards the lock is only held for a
\* client, and while it is not held a timer watches for changes (do_unpack, do_purge,
\* do_configure, rc_debman_transact, unlock_database).
LockIsPassedOn ==
  /\ part = "debman" => Debman!TypeOK
  /\ Debman!DpkgIsNotBlocked /\ Debman!LockIsGivenBack /\ Debman!WatchedUnlessLocked

\* A transaction without an error has done what it was to do, and nothing is ever removed
\* that no transaction was to remove (rc_debman_transact, mark_status, verify_status).
OnlyWhatWasAsked == Debman!SuccessMeansDone /\ Debman!PurgedWereAsked

\* Marks for removal that are left behind are reported (verify_status), and of several errors
\* in a transaction the worst is what the caller sees, unless a handler has called the front
\* end meanwhile (rc_packman_set_error, rc_packman_clear_error).
FailuresAreReported ==
  /\ Debman!MarksLeftAreReported
  /\ [](Front!TypeOK /\ (part = "front unhandled" => Unhandled!FailuresAreReported))

\* A transaction comes to an end even if dpkg asks for input (debman_poll_write_cb).
TransactionsEnd == part = "debman once" => Once!TransactionsEnd

-----------------------------------------------------------------------------
\* No text is lost between the pieces in which a file is read, the table that is read is
\* the status file when no query interrupts another, and no installed package is missing
\* however they are nested (rc_line_buf_cb, rc_debman_query_all_real).
FilesAreRead ==
  /\ part = "lines" => Lines!TypeOK
  /\ part = "status" => Status!TypeOK
  /\ Lines!NoTextIsLost
  /\ part = "status" => Status!TableIsTheFile
  /\ Status!NothingIsMissing

-----------------------------------------------------------------------------
\* A transaction of rpm that is done has done what it was to do and has left to rpm what
\* other packages obsolete, in no more steps than it has announced: only what packages
\* obsolete that are installed beside others may still be there, for it is taken out of
\* what is to be erased, and rpm does not look at it (LeftToNobody).  Under a lock of the
\* client rpm before 4.1 still runs what was asked for; and afterwards the database is open
\* exactly if the client has it locked (rc_rpmman_transact).
RpmDoesWhatWasAsked ==
  /\ part = "rpm" => /\ Rpm!TypeOK /\ Rpm!DoneMeansDone
                     /\ Rpm!ObsoletedAreLeftToRpm /\ Rpm!StepsStayInTotal
  /\ part = "rpm before 4.1 locked" => RpmOld!RunsWhatIsAsked
  /\ RpmOld!DatabaseIsGivenBack

\* No package is installed and removed at once, which fails with rpm 4.1 under a lock of
\* the client (the check in rc_packman_transact).
NothingTwice == RpmLocked!NothingTwice
=============================================================================
