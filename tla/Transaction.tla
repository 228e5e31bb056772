------------------------------ MODULE Transaction ------------------------------
(***************************************************************************)
(* A transaction on a multi world: rc_world_transact prepares the rollback *)
(* information, rc_world_multi_transact_fn hands the packages to the       *)
(* system world and then to the synthetic one, and the rollback            *)
(* information is saved or discarded.  Any of it may fail, and the program *)
(* may be killed between the steps.                                        *)
(***************************************************************************)
EXTENDS RollbackJournal

CONSTANTS
  Synthetic,        \* the names of synthetic packages
  Initial,          \* what may be installed at first
  Failures,         \* what may fail: "prepare", "system", "synthetic", "save", "crash"
  MaxTime,          \* a bound on the clock
  MaxTransactions   \* a bound on transactions

\* What the constants are, assumed wherever they are given values.
TransactionAssumption ==
  /\ Synthetic \subseteq Name /\ Initial \subseteq [Name -> Spec0]
  /\ Failures \subseteq {"prepare", "system", "synthetic", "save", "crash"}
  /\ MaxTime \in Nat \ {0} /\ MaxTransactions \in Nat
  /\ IsFiniteSet(Name)

NoDir  == [exists |-> FALSE, copies |-> <<>>]
Dir(c) == [exists |-> TRUE, copies |-> c]

NoInfo == [time |-> 0, doc |-> <<>>, changes |-> FALSE]

VARIABLES
  clock,
  installed,  \* the version of each package that is installed
  file,       \* the file of each package
  journal,    \* rollback.xml
  readable,   \* whether it can be parsed
  saved,      \* the directories of saved files, by time
  current,    \* the directory current-transaction
  enabled,    \* rollback_enabled of the package manager
  info,       \* the RCRollbackInfo
  request,    \* what the client wants: a version for some names, 0 to remove
  pc,
  failed,     \* failures of the MultiTransactInfo
  log,        \* the transactions that have been carried out
  spoilt      \* the times whose saved files got lost

disk  == <<journal, readable, saved, current>>
vars  == <<clock, installed, file, disk, enabled, info, request, pc, failed, log, spoilt>>

Requests == UNION {[S -> Spec0] : S \in (SUBSET Name) \ {{}}}

TypeOK ==
  /\ clock \in 1..MaxTime
  /\ installed \in [Name -> Spec0] /\ file \in [Name -> File]
  /\ journal \in Seq(Entry) /\ readable \in BOOLEAN
  /\ DOMAIN saved \subseteq 1..MaxTime
  /\ \A t \in DOMAIN saved : DOMAIN saved[t] \subseteq Name
  /\ current.exists \in BOOLEAN /\ DOMAIN current.copies \subseteq Name
  /\ enabled \in BOOLEAN /\ failed \in BOOLEAN
  /\ info.time \in 0..MaxTime /\ info.doc \in Seq(Entry)
  /\ pc \in {"idle", "prepare", "system", "synthetic", "end", "save", "rename"}
  /\ spoilt \subseteq 1..MaxTime

Init ==
  /\ clock = 1
  /\ installed \in Initial /\ file = [n \in Name |-> Stock]
  /\ journal = <<>> /\ readable = TRUE /\ saved = <<>> /\ current = NoDir
  /\ enabled = TRUE /\ info = NoInfo /\ request = <<>> /\ pc = "idle"
  /\ failed = FALSE /\ log = <<>> /\ spoilt = {}

-----------------------------------------------------------------------------
\* rc_world_transact, up to the transaction: the request is not empty, and what
\* is to be removed is there.
Transact(r) ==
  /\ pc = "idle" /\ Len(log) < MaxTransactions
  /\ \A n \in DOMAIN r : r[n] # installed[n]
  /\ request' = r
  /\ pc' = "prepare"
  /\ UNCHANGED <<clock, installed, file, disk, enabled, info, failed, log, spoilt>>

\* The copies made of files of the packages ns that are to go.
Copies(ns) == [n \in {m \in ns : IsCopied(m, file[m])} |-> file[n].content]

Outgoing == {n \in DOMAIN request \ Synthetic : installed[n] # 0}

\* The time of the RCRollbackInfo.
Timestamp == clock

\* rc_rollback_info_new.
Prepare ==
  /\ pc = "prepare"
  /\ info' = [time |-> Timestamp,
              doc |-> (IF readable THEN journal ELSE <<>>) \o
                SetToSeq({Track(Timestamp, n, installed[n], request[n],
                                IF n \in Outgoing THEN file[n] ELSE Stock)
                            : n \in DOMAIN request}),
              changes |-> DOMAIN Copies(Outgoing) # {}]
  /\ current' = Dir(Copies(Outgoing))
  /\ pc' = "system"
  /\ enabled' = FALSE   \* as the multi world does before its subworlds transact
  /\ failed' = FALSE
  /\ UNCHANGED <<clock, installed, file, journal, readable, saved, request, log, spoilt>>

\* A file cannot be looked at or copied: some may have been.
PrepareFails ==
  /\ pc = "prepare" /\ "prepare" \in Failures
  /\ \E ns \in SUBSET Outgoing : current' = Dir(Copies(ns))
  /\ pc' = "idle" /\ request' = <<>>
  /\ UNCHANGED <<clock, installed, file, journal, readable, saved, enabled, info, failed,
                 log, spoilt>>

-----------------------------------------------------------------------------
\* rc_world_multi_transact_fn.

\* The packages ns are installed or removed as requested; their files are new.
Apply(ns) ==
  /\ installed' = [n \in Name |-> IF n \in ns THEN request[n] ELSE installed[n]]
  /\ file' = [n \in Name |-> IF n \in ns THEN Stock ELSE file[n]]

SystemPart    == DOMAIN request \ Synthetic
SyntheticPart == DOMAIN request \cap Synthetic

\* What is remembered of a transaction: when it was, what it started from, and
\* what it changed.
Logged(ns) == [time |-> info.time, installed |-> installed, file |-> file,
               moved |-> ns, to |-> request, tracked |-> FALSE]

Log(ns) == log' = IF ns = {} THEN log ELSE Append(log, Logged(ns))

AlsoMoved(l, ns) == [l EXCEPT !.moved = @ \cup ns]
AsTracked(l)     == [l EXCEPT !.tracked = TRUE]

\* The system worlds come first.
TransactSystem ==
  /\ pc = "system"
  /\ Apply(SystemPart) /\ Log(SystemPart)
  /\ pc' = "synthetic"
  /\ UNCHANGED <<clock, disk, enabled, info, request, failed, spoilt>>

\* The package manager fails when it has done a part, or nothing, of it.
TransactSystemFails ==
  /\ pc = "system" /\ SystemPart # {} /\ "system" \in Failures
  /\ \E ns \in SUBSET SystemPart : Apply(ns) /\ Log(ns)
  /\ failed' = TRUE
  /\ pc' = "end"
  /\ UNCHANGED <<clock, disk, enabled, info, request, spoilt>>

LogMore(ns) ==
  log' = IF ns = {} THEN log
         ELSE IF SystemPart = {} THEN Append(log, Logged(ns))
         ELSE [log EXCEPT ![Len(log)] = AlsoMoved(@, ns)]

\* Then the others.
TransactSynthetic ==
  /\ pc = "synthetic"
  /\ Apply(SyntheticPart) /\ LogMore(SyntheticPart)
  /\ pc' = "end"
  /\ UNCHANGED <<clock, disk, enabled, info, request, failed, spoilt>>

\* The file of synthetic packages cannot be written.
TransactSyntheticFails ==
  /\ pc = "synthetic" /\ SyntheticPart # {} /\ "synthetic" \in Failures
  /\ Apply(SyntheticPart) /\ LogMore(SyntheticPart)
  /\ failed' = TRUE
  /\ pc' = "end"
  /\ UNCHANGED <<clock, disk, enabled, info, request, spoilt>>

-----------------------------------------------------------------------------
\* The end of rc_world_transact.

\* Faulty: the information is saved whether the transaction succeeded or not.
EndAlwaysSaving ==
  /\ pc = "end"
  /\ enabled' = TRUE
  /\ pc' = "save"
  /\ UNCHANGED <<clock, installed, file, disk, info, request, failed, log, spoilt>>

\* rc_rollback_info_discard after a failure.
End ==
  /\ pc = "end"
  /\ enabled' = TRUE
  /\ IF failed
     THEN /\ current' = NoDir
          /\ info' = NoInfo /\ request' = <<>> /\ pc' = "idle"
     ELSE /\ pc' = "save"
          /\ UNCHANGED <<current, info, request>>
  /\ UNCHANGED <<clock, installed, file, journal, readable, saved, failed, log, spoilt>>

\* rc_rollback_info_save writes the journal,
SaveJournal ==
  /\ pc = "save"
  /\ journal' = info.doc /\ readable' = TRUE
  /\ pc' = "rename"
  /\ log' = [log EXCEPT ![Len(log)] = AsTracked(@)]
  /\ UNCHANGED <<clock, installed, file, saved, current, enabled, info, request, failed,
                 spoilt>>

\* or cannot, and returns,
SaveJournalFails ==
  /\ pc = "save" /\ "save" \in Failures
  /\ info' = NoInfo /\ request' = <<>> /\ pc' = "idle"
  /\ UNCHANGED <<clock, installed, file, disk, enabled, failed, log, spoilt>>

Finish == info' = NoInfo /\ request' = <<>> /\ pc' = "idle"

\* and gives the directory its name.  A directory of the same second is in the
\* way if there is one, which is only logged.
SaveFiles ==
  /\ pc = "rename"
  /\ Finish
  /\ \/ /\ ~info.changes
        /\ current' = NoDir
        /\ UNCHANGED <<saved, spoilt>>
     \/ /\ info.changes /\ info.time \notin DOMAIN saved
        /\ saved' = [t \in DOMAIN saved \cup {info.time} |->
                       IF t = info.time THEN current.copies ELSE saved[t]]
        /\ current' = NoDir
        /\ UNCHANGED spoilt
     \/ /\ info.changes /\ info.time \in DOMAIN saved
        /\ spoilt' = spoilt \cup {info.time}
        /\ UNCHANGED <<saved, current>>
  /\ UNCHANGED <<clock, installed, file, journal, readable, enabled, failed, log>>

\* The program is killed.  If it was writing the journal, that may be in pieces.
Crash ==
  /\ "crash" \in Failures /\ pc # "idle"
  /\ \/ UNCHANGED <<journal, readable>>
     \/ pc = "save" /\ readable' = FALSE /\ journal' = <<>>
  /\ spoilt' = IF pc = "rename" THEN spoilt \cup {info.time} ELSE spoilt
  /\ enabled' = TRUE
  /\ Finish
  /\ UNCHANGED <<clock, installed, file, saved, current, failed, log>>

-----------------------------------------------------------------------------
\* Around it.

Tick ==
  /\ pc = "idle" /\ clock < MaxTime
  /\ clock' = clock + 1
  /\ UNCHANGED <<installed, file, disk, enabled, info, request, pc, failed, log, spoilt>>

\* The user changes the file of an installed package.
EditFile(n, f) ==
  /\ pc = "idle" /\ installed[n] # 0 /\ n \notin Synthetic
  /\ file[n] = Stock /\ f # Stock
  /\ f.gone => f.content = STOCK /\ ~f.chmod
  /\ n \in Link => ~f.chmod
  /\ file' = [file EXCEPT ![n] = f]
  /\ UNCHANGED <<clock, installed, disk, enabled, info, request, pc, failed, log, spoilt>>

Step == \/ Prepare \/ PrepareFails \/ TransactSystem \/ TransactSystemFails
        \/ TransactSynthetic \/ TransactSyntheticFails \/ End
        \/ SaveJournal \/ SaveJournalFails \/ SaveFiles \/ Crash

Next == \/ \E r \in Requests : Transact(r)
        \/ Step \/ Tick
        \/ \E n \in Name, f \in File : EditFile(n, f)

Spec == Init /\ [][Next]_vars

-----------------------------------------------------------------------------
\* Everything the journal says has happened: a transaction that failed leaves no
\* entry (rc_rollback_info_save and rc_rollback_info_discard).
Happened(e, l) ==
  /\ l.time = e.time /\ e.name \in l.moved
  /\ l.installed[e.name] = e.old /\ l.to[e.name] = e.new

EntriesHappened == \A i \in 1..Len(journal) : \E k \in 1..Len(log) : Happened(journal[i], log[k])

\* Of every changed regular file in the journal there is the copy that was made
\* then, unless the program was killed in between, or there was another
\* transaction in the same second.
CopiesAreThere ==
  pc = "idle" =>
    \A k \in 1..Len(log) : \A n \in log[k].moved :
      log[k].tracked /\ readable /\ log[k].time \notin spoilt /\ log[k].installed[n] # 0
        /\ IsCopied(n, log[k].file[n])
        /\ (\E i \in 1..Len(journal) : journal[i].time = log[k].time)
      => /\ log[k].time \in DOMAIN saved
         /\ n \in DOMAIN saved[log[k].time]
         /\ saved[log[k].time][n] = log[k].file[n].content

\* Since the time t, everything has been tracked, and no package has been
\* changed twice.
Simple(t) ==
  LET since == {k \in 1..Len(log) : log[k].time >= t} IN
  /\ since # {} /\ readable
  /\ \A k \in since :
       /\ log[k].tracked
       /\ \A n \in log[k].moved :
            log[k].installed[n] # 0 => <<n, log[k].installed[n]>> \in Available
       /\ \A m \in since : k # m => log[k].moved \cap log[m].moved = {}

\* The actions for a time lead back to what was installed then, if all changes
\* since then are simple.
ActionsLeadBack ==
  pc = "idle" => \A t \in 1..clock : Simple(t) =>
    LET first == Min({k \in 1..Len(log) : log[k].time >= t}) IN
    \A actions \in GetActions(journal, t, installed) :
      Undo(installed, actions) = log[first].installed

\* Rollback is disabled only during a transaction of the multi world.
EnabledAgain == pc \in {"idle", "save", "rename"} => enabled

\* The file of a package that was replaced is restored if it was removed, or is a
\* regular one with another mode.
Restored(k, n) ==
  Restore(n, FileNode(n, log[k].file[n]),
          IF log[k].time \in DOMAIN saved THEN saved[log[k].time] ELSE <<>>)

Restorable(k, n) ==
  pc = "idle" /\ log[k].tracked /\ readable /\ log[k].installed[n] # 0 /\ n \notin Synthetic
    /\ log[k].time \notin spoilt

FilesAreRestored ==
  \A k \in 1..Len(log) : \A n \in log[k].moved :
    Restorable(k, n) /\ n \notin Link /\ (log[k].file[n].gone \/ log[k].file[n].chmod)
      => Restored(k, n) = log[k].file[n]

\* Regular files are copied back (the change log, on rc_rollback_restore_files).
EditsComeBack ==
  \A k \in 1..Len(log) : \A n \in log[k].moved :
    Restorable(k, n) /\ n \notin Link => Restored(k, n) = log[k].file[n]

\* The targets of links are stored, and restored after a rollback (the change
\* log).
LinksAreRestored ==
  \A k \in 1..Len(log) : \A n \in log[k].moved :
    Restorable(k, n) /\ n \in Link => Restored(k, n) = log[k].file[n]

\* A removal without a package is one of a package that has since been removed
\* (the comment in rc_rollback_get_actions).
DroppedAreGone ==
  pc = "idle" =>
    \A t \in 1..clock : \A table \in ActionTables(journal, t, installed) :
      \A a \in table : HasNoPackage(a) => installed[a.name] = 0

=============================================================================
