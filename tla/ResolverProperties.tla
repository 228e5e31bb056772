-------------------------- MODULE ResolverProperties --------------------------
(***************************************************************************)
(* What the resolver promises of the solutions it offers and of the way it *)
(* looks for them.                                                         *)
(***************************************************************************)
EXTENDS Resolver

Solutions == {complete[i] : i \in DOMAIN complete}

\* The packages a solution adds to the system, and those it takes away.
Added(c) == {p \in Pkg \ world.installed : IsPresent(c, p)}
Gone(c)  == {p \in world.installed : IsAbsent(c, p)}

\* An upgrade that was asked for after its package had been ruled out: it is
\* not made, and yet the installed version goes (rc-queue-item.c:388 ignores
\* that rc_resolver_context_upgrade_package returned FALSE).
LostUpgrade(c, p) ==
  /\ p \notin world.installed /\ FindInstalledVersion(p) # NONE
  /\ GetStatus(c, p) \in ToBeUninstalled

\* What a verification installs is only to be installed softly, and goes again
\* when something is found to conflict with it (rc-queue-item.c:1660).
TakenBack(c, p) ==
  request.verifying /\ p \notin world.installed /\ GetStatus(c, p) \in ToBeUninstalled

\* A package that is installed, or was to be installed at some time.
Taken(c, r) ==
  \/ r \in world.installed
  \/ GetStatus(c, r) # "UNINSTALLED" /\ (~c.verifying => GetStatus(c, r) = "TO_BE_INSTALLED")

QueueType   == [context : ContextType, items : Seq(ItemType)]
WorkingType == [context : ContextType, items : Seq(ItemType), new : Seq(ItemType), did : BOOLEAN]

\* Contexts and items keep their shape whatever is processed: a status per
\* package at every level, natural sizes and priorities, items over packages
\* and dependencies of the world, and no branches within branches.
TypeOK ==
  /\ world \in WorldType /\ request \in RequestType
  /\ pending \in Seq(QueueType) /\ deferred \in Seq(QueueType)
  /\ cur \in WorkingType
  /\ complete \in Seq(ContextType)
  /\ pruned \in Seq(ContextType) /\ invalid \in Seq(ContextType)
  /\ best \in Seq(ContextType) /\ Len(best) <= 1
  /\ timedOut \in BOOLEAN
  /\ pc \in {"loop", "process", "classify", "done", "aborted"}

-----------------------------------------------------------------------------
(* Solutions *)

\* What a package must have in a solution: everything it requires when it is to be
\* installed or was verified, and what it had when it was installed before.
MustHave(p) ==
  {d \in world.requires[p] :
     p \notin world.installed \/ request.verifying \/ Providers[d] \cap world.installed # {}}

\* An upgrade of a package that requires d is only looked for when a provider of d goes
\* (rc-queue-item.c:919).
IsNewer(q, p) == NameOf[q] = NameOf[p] /\ VersionOf[q] > VersionOf[p]

LostProvider(c, d) == \E q \in Providers[d] \cap world.installed : GetStatus(c, q) \in ToBeUninstalled

\* What the resolver may install so that p does without what it lost: what verifies d, or
\* a newer version of p.
Helps(c, q, p, d) == q \in Providers[d] \/ (LostProvider(c, d) /\ IsNewer(q, p))

\* Nobody does without q on purpose: its install or its upgrade was lost.
Forsaken(c, q) == LostUpgrade(c, q) \/ TakenBack(c, q)

\* Another package of p's name was there to replace p, but p stays beside it: a branch is
\* done when one of its packages is present, whatever it was to replace
\* (rc-queue-item.c:1220).
InSeveralVersions(c, p) ==
  \E r \in Pkg \ {p} : NameOf[r] = NameOf[p] /\ VersionOf[r] >= VersionOf[p] /\ Taken(c, r)

\* The packages between which there was a choice for p and d are also those for something
\* that r required.  One of two such branches is dropped, and when r goes nothing is
\* installed for the other (rc-resolver-queue.c:285, rc-queue-item.c:341).
ChosenFor(c, r, p, d) ==
  \E e \in world.requires[r] \cup world.children[r] :
    \E q1, q2 \in Providers[e] \ world.installed :
      ~SameSpec(q1, q2) /\ Helps(c, q1, p, d) /\ Helps(c, q2, p, d)

Unavoidable(c, p, d) ==
  \/ \E q \in Pkg : Helps(c, q, p, d) /\ Forsaken(c, q)
  \/ LostProvider(c, d) /\ InSeveralVersions(c, p)

\* An installed package that goes although it was to replace an older version: that was decided
\* when it had already been ruled out, and the older version is gone as well.
RuledOut(c, q) ==
  /\ q \in world.installed /\ GetStatus(c, q) \in ToBeUninstalled
  /\ \E r \in Pkg : IsNewer(q, r) /\ Taken(c, r) /\ GetStatus(c, r) \in ToBeUninstalled

\* The two ways in which a branch is dropped for one that does less: what it keeps is not
\* installed, as those who need it go, or was only to replace another package.
Overlooked(c, p, d) ==
  \/ \E r \in Pkg : GetStatus(c, r) \in ToBeUninstalled /\ ChosenFor(c, r, p, d)
  \/ \E q \in Pkg : Helps(c, q, p, d) /\ RuledOut(c, q)

\* In a solution everything that is there has what it requires: what was installed for it,
\* what was there before, and what was verified.  The exceptions are those above
\* (rc_queue_item_install_process, rc_queue_item_uninstall_process,
\* rc_queue_item_require_process).
RequirementsAreMet ==
  \A c \in Solutions : \A p \in Pkg : IsPresent(c, p) =>
    \A d \in MustHave(p) :
      RequirementIsMet(c, d, FALSE) \/ Unavoidable(c, p, d) \/ Overlooked(c, p, d)

\* Packages of one name and version provide the same: a branch is said to contain another when
\* it offers the same names and versions (rc_queue_item_branch_contains), and then it is taken
\* to do for it.
SpecsProvideAlike ==
  \A d \in Dep : \A p, q \in Pkg : SameSpec(p, q) => (p \in Providers[d] <=> q \in Providers[d])

\* "If one branch contains all of the possible items of another branch, the larger branch can
\* be dropped": what is left of the queue does for all of its packages what it did before
\* (rc_resolver_queue_process_once).
LargerBranchesCanBeDropped ==
  \A c \in Solutions : \A p \in Pkg : IsPresent(c, p) =>
    \A d \in MustHave(p) : RequirementIsMet(c, d, FALSE) \/ Unavoidable(c, p, d)

\* Every package that a solution installs has its requirements met in the solution.
Closed ==
  \A c \in Solutions : \A p \in Added(c) : \A d \in world.requires[p] : RequirementIsMet(c, d, FALSE)

\* A solution adds no package that conflicts with another present package,
\* in either direction.
NoNewConflicts ==
  \A c \in Solutions : \A p, q \in Pkg : \A d \in world.conflicts[p] :
    IsPresent(c, p) /\ IsPresent(c, q) /\ ~SameSpec(p, q) /\ q \in Providers[d]
      => {p, q} \subseteq world.installed

\* "a package of the same name is already marked as needing to be installed"
NoParallelInstalls ==
  \A c \in Solutions : \A p, q \in Added(c) : NameOf[p] = NameOf[q] => SameSpec(p, q)

\* Only upgrades of one package can come in parallel: of an installed one, or of one that a
\* verification installed and took back (the flags of rc_resolver_context_upgrade_package).
ParallelOnlyAsUpgrades ==
  \A c \in Solutions : \A p, q \in Added(c) :
    NameOf[p] = NameOf[q] /\ ~SameSpec(p, q) =>
      \/ FindInstalledVersion(p) # NONE
      \/ \E r \in Pkg \ world.installed : NameOf[r] = NameOf[p] /\ TakenBack(c, r)

\* What the user asked for is in every solution: what was to be installed is
\* present and what was to be removed is not.
Honoured ==
  \A c \in Solutions :
    /\ \A p \in request.install \ world.installed :
         IsPresent(c, p) \/ LostUpgrade(c, p) \/ TakenBack(c, p)
    /\ \A p \in request.remove \cap world.installed : IsAbsent(c, p)

\* A locked package is only taken away when the user asked for that, or for
\* an upgrade of it.
LocksHold ==
  \A c \in Solutions : \A p \in world.locked \cap Gone(c) :
    \/ p \in request.remove
    \/ \E q \in request.install : NameOf[q] = NameOf[p]

\* What a package may go for: it was asked for, a new version of it, a
\* conflict or obsolete in one direction or the other, a requirement that is
\* lost, or being the child of a package that goes.  When only removals are
\* asked for, a requirement is lost that no installed package meets.
Against(c, q, p) ==
  /\ q \in Added(c) \/ (request.verifying /\ q \in world.installed)
  /\ \/ \E d \in world.conflicts[q] : p \in Providers[d]
     \/ \E d \in world.obsoletes[q] : p \in OwnProviders[d]
     \/ \E d \in world.conflicts[p] : q \in Providers[d]

Lost(c, d) ==
  \/ ~RequirementIsMet(c, d, FALSE)
  \/ request.remove # {} /\ Providers[d] \cap world.installed \subseteq Gone(c)

HasReason(c, p) ==
  \/ p \in request.remove
  \/ \E q \in Added(c) : NameOf[q] = NameOf[p]
  \/ \E q \in Pkg : Against(c, q, p)
  \/ \E d \in request.extraConflicts : p \in Providers[d]
  \/ \E d \in world.requires[p] \cup world.children[p] : Lost(c, d)
  \/ GetStatus(c, p) = "DUE_TO_UNLINK"

NoGratuitousRemovals ==
  \A c \in Solutions : \A p \in Gone(c) : HasReason(c, p) \/ \E q \in Pkg : LostUpgrade(c, q)

\* What there is to download for a solution.
DownloadOf(c) == FoldSet(LAMBDA p, sum : SizeOf[p] + sum, 0, Added(c))

\* The figures by which solutions are compared are those of their marks, over
\* all the levels of the chain and however often a package was marked.
ChargesMatchMarks ==
  \A c \in Solutions : ~c.verifying =>
    /\ c.download = DownloadOf(c) % SizeModulus
    /\ \A p \in Added(c) : c.minPriority <= PriorityOf[p]
    /\ c.minPriority = MaxInt \/ \E p \in Added(c) : c.minPriority = PriorityOf[p]

-----------------------------------------------------------------------------
(* The promises together *)

\* What a solution installs can be there together with what it leaves, and with what else
\* it installs (rc_queue_item_conflict_process, rc_resolver_context_is_parallel_install).
GoTogether == NoNewConflicts /\ ParallelOnlyAsUpgrades

\* What was asked for is done, and locks hold (rc_queue_item_install_process,
\* rc_queue_item_uninstall_process).
RequestsAreHonoured == Honoured /\ LocksHold

-----------------------------------------------------------------------------
(* The search *)

\* "In the case of a tie, the first solution wins": no solution is better
\* than the best one, and the best one is better than those found before it.
BestIsFirstOfBest ==
  \/ best = <<>> /\ complete = <<>>
  \/ \E i \in DOMAIN complete :
       /\ best = <<complete[i]>>
       /\ \A j \in DOMAIN complete : /\ j < i => ~Better(complete[j], complete[i])
                                     /\ j > i => Better(complete[i], complete[j])

\* "Smaller downloads are best": of the solutions that are as good in priorities, churn and
\* penalties, none has less to download than the best one
\* (rc_resolver_context_cmp).
SmallerDownloadsAreBest ==
  best # <<>> => \A i \in DOMAIN complete :
    \/ PartiallyBetter(best[1], complete[i]) \/ PartiallyBetter(complete[i], best[1])
    \/ DownloadOf(best[1]) <= DownloadOf(complete[i])

\* Solutions are compared by figures that are right, and the one with the least to download
\* wins among equals (rc_resolver_context_install_package, rc_resolver_context_cmp).
FiguresDecide == ChargesMatchMarks /\ SmallerDownloadsAreBest

\* "that can only mean one thing: we are down to nothing but branches"
OnlyBranchesAreSplit ==
  pc = "classify" /\ ~cur.context.invalid => Branches = DOMAIN cur.items

\* No item meets a status its handler does not expect.
NoAssertionFails == pc # "aborted"

\* What has been decided for a queue stays decided: to install a package, or
\* to remove it or rule it out.
IsDecided(status) == status \in {"TO_BE_INSTALLED", "TO_BE_UNINSTALLED", "DUE_TO_OBSOLETE"}

DecisionsStand ==
  [][pc = "process" => \A p \in Pkg : IsDecided(GetStatus(cur.context, p))
                          => GetStatus(cur'.context, p) = GetStatus(cur.context, p)]_vars

\* The resolver comes to an end: items do not create each other for ever.
Termination == <>(pc \in {"done", "aborted"})

=============================================================================
