------------------------------- MODULE RpmTransact -------------------------------
(***************************************************************************)
(* A transaction of the RPM back end, rc_rpmman_transact: packages are put *)
(* into rpm's transaction set, the set is checked, ordered and run, and    *)
(* the callbacks of the run are counted as steps.  From rpm 4.1 on the set *)
(* lives as long as the database is open.  rpm itself is external: its     *)
(* set, the problems it may find and the order of its callbacks.           *)
(***************************************************************************)
EXTENDS Naturals, FiniteSets

CONSTANTS
  Package,    \* packages, each a version of something
  NameOf,     \* the names of packages
  Obsoletes,  \* <<p, q>>: p obsoletes q
  InstallOnly,  \* packages that are installed beside others, not as upgrades
  Keeps,      \* whether the set lives as long as the database (rpm 4.1)
  Locks       \* whether the client locks the database around transactions

\* What the constants are, assumed wherever they are given values.
RpmTransactAssumption ==
  /\ IsFiniteSet(Package) /\ DOMAIN NameOf = Package /\ Obsoletes \subseteq Package \X Package
  /\ InstallOnly \subseteq Package
  /\ Keeps \in BOOLEAN /\ Locks \in BOOLEAN

VARIABLES
  installed,  \* the database
  open,       \* db_status
  locked,     \* whether the client holds the lock
  adds,       \* the packages of the transaction set to be installed
  erases,     \* ... and those to be erased
  at,         \* how far the transaction is
  asked,      \* what the client asks for
  job,        \* the transaction's own data
  outcome     \* of the last transaction

vars == <<installed, open, locked, adds, erases, at, asked, job, outcome>>

\* install, remove: to be put into the set; close: close_db; seqno and the totals
\* as in InstallState.
NoJob == [install |-> {}, remove |-> {}, ran |-> {}, close |-> FALSE, test |-> FALSE,
          seqno |-> 0, total |-> 0]
NoRequest == [install |-> {}, remove |-> {}, noact |-> FALSE]

TypeOK ==
  /\ installed \subseteq Package /\ open \in {"none", "rdwr"} /\ locked \in BOOLEAN
  /\ adds \subseteq Package /\ erases \subseteq Package
  /\ at \in {"idle", "add", "erase", "check", "run"}
  /\ asked \in [install : SUBSET Package, remove : SUBSET Package, noact : BOOLEAN]
  /\ job \in [install : SUBSET Package, remove : SUBSET Package, ran : SUBSET Package,
              close : BOOLEAN, test : BOOLEAN, seqno : Nat, total : Nat]
  /\ outcome \in {"none", "done", "failed"}
  /\ at # "idle" => job.ran \subseteq adds \cup erases

Same(p, q) == NameOf[p] = NameOf[q]

\* One version of each, and nothing that is obsoleted by something else.
Consistent(S) == \A p, q \in S : p # q => ~Same(p, q) /\ <<p, q>> \notin Obsoletes

Init == /\ installed \in {S \in SUBSET Package : Consistent(S)}
        /\ open = "none" /\ locked = FALSE
        /\ adds = {} /\ erases = {} /\ at = "idle" /\ asked = NoRequest /\ job = NoJob
        /\ outcome = "none"

-----------------------------------------------------------------------------
\* rc_rpmman_lock, rc_rpmman_unlock.
Lock ==
  /\ Locks /\ at = "idle" /\ ~locked
  /\ open' = "rdwr" /\ locked' = TRUE
  /\ UNCHANGED <<installed, adds, erases, at, asked, job, outcome>>

\* Closing the database frees the transaction set.
Unlock ==
  /\ at = "idle" /\ locked
  /\ open' = "none" /\ locked' = FALSE /\ adds' = {} /\ erases' = {}
  /\ UNCHANGED <<installed, at, asked, job, outcome>>

\* ERROR: the database is closed if the transaction has opened it.
End(result) ==
  /\ at' = "idle" /\ outcome' = result
  /\ IF job.close
     THEN open' = "none" /\ adds' = {} /\ erases' = {}
     ELSE UNCHANGED <<open, adds, erases>>
  /\ UNCHANGED <<locked, asked>>

\* What rc_packman_transact lets pass.
Requests ==
  {r \in [install : SUBSET Package, remove : SUBSET Package, noact : BOOLEAN] :
     /\ r.install \cup r.remove # {}
     /\ \A p, q \in r.install \cup r.remove : p # q => ~Same(p, q)
     /\ r.install \cap r.remove = {}}

Begin(r, close) ==
  [NoJob EXCEPT !.install = r.install, !.close = close, !.test = r.noact]

Transact ==
  /\ at = "idle"
  /\ \E r \in Requests :
       /\ asked' = r /\ job' = Begin(r, open = "none")
       /\ open' = "rdwr" /\ at' = "add"
       /\ IF Keeps /\ open = "rdwr" THEN UNCHANGED <<adds, erases>>
          ELSE adds' = {} /\ erases' = {}
  /\ UNCHANGED <<installed, locked, outcome>>

\* The database cannot be opened.
TransactFails ==
  /\ at = "idle" /\ open = "none"
  /\ \E r \in Requests : asked' = r
  /\ job' = NoJob /\ outcome' = "failed"
  /\ UNCHANGED <<installed, open, locked, adds, erases, at>>

\* transaction_add_install_packages
AddInstall ==
  /\ at = "add"
  /\ \E p \in job.install :
       /\ adds' = adds \cup {p}
       /\ job' = [job EXCEPT !.install = @ \ {p}]
  /\ UNCHANGED <<installed, open, locked, erases, at, asked, outcome>>

\* The file of a package cannot be read, or rpm does not take it.
AddInstallFails ==
  /\ at = "add" /\ job.install # {}
  /\ End("failed") /\ UNCHANGED <<installed, job>>

\* The packages to be removed that an installed one obsoletes, once for each, whether or
\* not it is installed as an upgrade.
Obsoleted == {pr \in Obsoletes : pr[1] \in asked.install /\ pr[2] \in asked.remove}

\* Faulty: obsoleted packages are erased as well.
RealRemovesAll == asked.remove

RealRemoves == asked.remove \ {pr[2] : pr \in Obsoleted}

AddDone ==
  /\ at = "add" /\ job.install = {}
  /\ at' = "erase"
  /\ job' = [job EXCEPT !.remove = RealRemoves]
  /\ UNCHANGED <<installed, open, locked, adds, erases, asked, outcome>>

\* transaction_add_remove_packages
AddErase ==
  /\ at = "erase"
  /\ \E p \in job.remove \cap installed :
       /\ erases' = erases \cup {p}
       /\ job' = [job EXCEPT !.remove = @ \ {p}]
  /\ UNCHANGED <<installed, open, locked, adds, at, asked, outcome>>

AddEraseFails ==
  /\ at = "erase" /\ job.remove \ installed # {}
  /\ End("failed") /\ UNCHANGED <<installed, job>>

\* Packages that replace another version count for a step more.
Upgrades == {p \in asked.install : \E q \in installed : Same(p, q) /\ p # q}

EraseDone ==
  /\ at = "erase" /\ job.remove = {}
  /\ at' = "check"
  /\ job' = [job EXCEPT !.total = 2 * Cardinality(asked.install) + Cardinality(Upgrades)
                                  + Cardinality(RealRemoves) + Cardinality(Obsoleted)]
  /\ UNCHANGED <<installed, open, locked, adds, erases, asked, outcome>>

\* rpmtsCheck or rpmtsOrder finds a problem.
CheckFails ==
  /\ at = "check"
  /\ End("failed") /\ UNCHANGED <<installed, job>>

\* rpm looks at what a package obsoletes if it was added as an upgrade.
Ousts(p, q) == <<p, q>> \in Obsoletes /\ p \notin InstallOnly

\* The run begins, with transact_start.
Run ==
  /\ at = "check" /\ \A p, q \in adds : p # q => ~Ousts(p, q)
  /\ at' = "run"
  /\ UNCHANGED <<installed, open, locked, adds, erases, asked, job, outcome>>

-----------------------------------------------------------------------------
\* transact_cb: steps are counted up to the total.

Step(j) == IF j.seqno < j.total THEN [j EXCEPT !.seqno = @ + 1] ELSE j

TransProgress ==
  /\ at = "run" /\ job.ran = {} /\ job' = Step(job)
  /\ UNCHANGED <<installed, open, locked, adds, erases, at, asked, outcome>>

\* What rpm removes when it installs p (the upgrade flag of rpmtsAddInstallElement).
Replaces(p, q) == p \notin InstallOnly /\ (Same(p, q) \/ <<p, q>> \in Obsoletes)

\* rpm installs a package and removes what it replaces.
InstStart ==
  /\ at = "run" /\ ~job.test
  /\ \E p \in adds \ job.ran :
       /\ job' = Step([job EXCEPT !.ran = @ \cup {p}])
       /\ installed' = {q \in installed : ~Replaces(p, q)} \cup {p}
  /\ UNCHANGED <<open, locked, adds, erases, at, asked, outcome>>

\* rpm erases the packages after it has installed the others.
Uninst ==
  /\ at = "run" /\ ~job.test /\ adds \subseteq job.ran
  /\ \E p \in erases \ job.ran :
       /\ job' = [job EXCEPT !.ran = @ \cup {p}]
       /\ installed' = installed \ {p}
  /\ UNCHANGED <<open, locked, adds, erases, at, asked, outcome>>

RunFails ==
  /\ at = "run"
  /\ End("failed") /\ UNCHANGED <<installed, job>>

\* The run is over: the steps that are left are told, then transact_done.
RunDone ==
  /\ at = "run" /\ (job.test \/ adds \cup erases \subseteq job.ran)
  /\ job' = IF job.seqno < job.total THEN [job EXCEPT !.seqno = job.total] ELSE job
  /\ End("done") /\ UNCHANGED installed

Next ==
  \/ Lock \/ Unlock \/ Transact \/ TransactFails
  \/ AddInstall \/ AddInstallFails \/ AddDone \/ AddErase \/ AddEraseFails \/ EraseDone
  \/ CheckFails \/ Run \/ TransProgress \/ InstStart \/ Uninst \/ RunFails \/ RunDone

Spec == Init /\ [][Next]_vars

-----------------------------------------------------------------------------
\* No step is numbered past the total that transact_start has announced.
StepsStayInTotal == at = "run" => job.seqno <= job.total

\* Taken out of what is to be erased because something obsoletes them, which rpm does not
\* look at: nobody removes them.
LeftToNobody == {q \in asked.remove \ RealRemoves : \A p \in asked.install : ~Ousts(p, q)}

\* When a transaction is done, what it was to install is installed, and of what it was to
\* remove all is gone that somebody removes.
DoneMeansDone ==
  outcome = "done" /\ at = "idle" /\ ~asked.noact =>
    /\ asked.install \subseteq installed
    /\ asked.remove \cap installed \subseteq LeftToNobody

\* What a transaction was to remove is gone when it is done, what the filter in
\* rc_rpmman_transact leaves to rpm included.  It fails for what a package obsoletes that
\* is only installed.
RemovedAreGone ==
  outcome = "done" /\ at = "idle" /\ ~asked.noact => asked.remove \cap installed = {}

\* rpm is not to erase what it removes as obsoleted anyway (the filter in
\* rc_rpmman_transact).
ObsoletedAreLeftToRpm ==
  at = "run" => \A p \in adds, q \in erases : <<p, q>> \notin Obsoletes

\* What is run is what was asked for.
RunsWhatIsAsked ==
  at = "run" => adds = asked.install /\ erases \subseteq asked.remove

\* No package is installed and removed at once (the check in rc_packman_transact).
NothingTwice == at = "run" => adds \cap erases = {}

\* Between transactions the database is open if the client has locked it, and else
\* closed.
DatabaseIsGivenBack == at = "idle" => (open = "rdwr" <=> locked)

=============================================================================
