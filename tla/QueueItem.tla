------------------------------ MODULE QueueItem ------------------------------
(***************************************************************************)
(* The items of a resolver queue and what processing one does.  Processing *)
(* an item changes the context and creates new items, which the queue      *)
(* takes up in its next pass.  An outcome is a record of the new context,  *)
(* the items created, in the order in which they are created, whether the  *)
(* item counts as progress (did), and whether an assertion of the code     *)
(* failed (aborted).                                                       *)
(*                                                                         *)
(* Group items are left out: they are only made in code that is compiled   *)
(* out.                                                                    *)
(***************************************************************************)
EXTENDS ResolverContext

InstallItem(p, upgrades, neededBy, explicit) ==
  [type |-> "install", package |-> p, upgrades |-> upgrades, neededBy |-> neededBy,
   explicit |-> explicit, penalty |-> 0]

\* A new install item upgrades the installed version of its package.
NewInstall(p, neededBy, explicit) ==
  LET old == FindInstalledVersion(p)
  IN  InstallItem(p, IF old # NONE /\ ~SameSpec(old, p) THEN old ELSE NONE, neededBy, explicit)

RequireItem(d, requirer, isChild, removeOnly, upgraded) ==
  [type |-> "require", dep |-> d, requiring |-> requirer, isChild |-> isChild,
   removeOnly |-> removeOnly, upgraded |-> upgraded]

ConflictItem(d, p, isObsolete) ==
  [type |-> "conflict", dep |-> d, conflicting |-> p, obsolete |-> isObsolete]

UninstallItem(p) ==
  [type |-> "uninstall", package |-> p, explicit |-> FALSE, removeOnly |-> FALSE,
   upgradedTo |-> NONE, obsolete |-> FALSE, unlink |-> FALSE]

BranchItem(items) == [type |-> "branch", possible |-> items]

InstallItems ==
  [type : {"install"}, package : Pkg, upgrades : Pkg \cup {NONE}, neededBy : SUBSET Pkg,
   explicit : BOOLEAN, penalty : Int]
RequireItems ==
  [type : {"require"}, dep : Dep, requiring : Pkg \cup {NONE}, isChild : BOOLEAN,
   removeOnly : BOOLEAN, upgraded : Pkg \cup {NONE}]
ConflictItems ==
  [type : {"conflict"}, dep : Dep, conflicting : Pkg \cup {NONE}, obsolete : BOOLEAN]
UninstallItems ==
  [type : {"uninstall"}, package : Pkg, explicit : BOOLEAN, removeOnly : BOOLEAN,
   upgradedTo : Pkg \cup {NONE}, obsolete : BOOLEAN, unlink : BOOLEAN]

\* There are no branches within branches.
SimpleItemType == InstallItems \cup RequireItems \cup ConflictItems \cup UninstallItems
BranchItems    == [type : {"branch"}, possible : Seq(SimpleItemType)]
ItemType       == SimpleItemType \cup BranchItems

\* Uninstalls go first, except unlinks.
Priority(item) == IF item.type = "uninstall" /\ ~item.unlink THEN 100 ELSE 0

Outcome(c, items) == [context |-> c, items |-> items, did |-> TRUE, aborted |-> FALSE]

Map(Op(_), s) == [i \in DOMAIN s |-> Op(s[i])]

-----------------------------------------------------------------------------

\* Faulty: the requirements of the installed package are forgotten.
InstallConsequencesUnrequired(c, p) ==
  Map(LAMBDA d : ConflictItem(d, p, FALSE), DepsInOrder(world.conflicts[p]))
  \o Map(UninstallItem, Reverse(InOrder({q \in Conflicting(p) : ~SameSpec(q, p)})))

\* Faulty: what conflicts with the installed package is left alone.
InstallConsequencesUnopposed(c, p) ==
  Map(LAMBDA d : RequireItem(d, p, FALSE, FALSE, NONE),
      DepsInOrder({d \in world.requires[p] : ~RequirementIsMet(c, d, FALSE)}))
  \o Map(LAMBDA d : ConflictItem(d, p, FALSE), DepsInOrder(world.conflicts[p]))

\* What an install that takes effect gives rise to: its unmet requires and
\* children, its conflicts and obsoletes, and the removal of the packages
\* that conflict with what it provides.
InstallConsequences(c, p) ==
  LET unmet     == DepsInOrder({d \in world.requires[p] : ~RequirementIsMet(c, d, FALSE)})
      unmetKids == DepsInOrder({d \in world.children[p] : ~RequirementIsMet(c, d, TRUE)})
      against   == Reverse(InOrder({q \in Conflicting(p) : ~SameSpec(q, p)}))
  IN  Map(LAMBDA d : RequireItem(d, p, FALSE, FALSE, NONE), unmet)
      \o Map(LAMBDA d : RequireItem(d, p, TRUE, FALSE, NONE), unmetKids)
      \o Map(LAMBDA d : ConflictItem(d, p, FALSE), DepsInOrder(world.conflicts[p]))
      \o Map(LAMBDA d : ConflictItem(d, p, TRUE), DepsInOrder(world.obsoletes[p]))
      \o Map(UninstallItem, against)

ProcessInstall(c, item) ==
  LET p        == item.package
      status   == GetStatus(c, p)
      upgrade  == item.upgrades # NONE
      noNeeder == item.neededBy # {} /\ \A q \in item.neededBy : GetStatus(c, q) \in ToBeUninstalled
      backOut  == c.verifying /\ status \in ToBeUninstalled /\ item.neededBy # {}
      after    == IF upgrade THEN UpgradePackage(c, p, item.penalty)
                             ELSE InstallPackage(c, p, item.penalty)
      removal  == IF upgrade
                  THEN <<[UninstallItem(item.upgrades) EXCEPT !.upgradedTo = p,
                                                              !.explicit = item.explicit]>>
                  ELSE <<>>
  IN  CASE upgrade /\ SameSpec(p, item.upgrades) -> Outcome(c, <<>>)
        [] ~(upgrade /\ SameSpec(p, item.upgrades)) /\ noNeeder -> Outcome(c, <<>>)
        [] OTHER ->
             IF backOut THEN Outcome(c, Map(UninstallItem, InOrder(item.neededBy)))
             ELSE Outcome(after, removal \o IF status \in {"UNINSTALLED", "DUE_TO_UNLINK"}
                                            THEN InstallConsequences(after, p) ELSE <<>>)

\* The packages that may be installed for a require item; of several with
\* one spec the first that is met counts.
InstallableProviders(c, item) ==
  LET ok(p) == /\ GetStatus(c, p) \notin ToBeUninstalled
               /\ ~IsParallelInstall(c, p)
               /\ PackageIsPossible(c, p)
               /\ p \notin world.locked
      found == {p \in (IF item.isChild THEN ExactProviders ELSE Providers)[item.dep] : ok(p)}
  IN  IF item.removeOnly THEN <<>>
      ELSE InOrder({p \in found :
                      \A q \in found : SameSpec(q, p) => PkgPosition[p] <= PkgPosition[q]})

\* No provider can be installed: upgrade the requiring package when the
\* requirement was lost to an upgrade, or remove it, or fail.  Removal is not
\* tried when an upgrade has its own requires met, except while verifying.
ReplaceRequirer(c, item) ==
  LET r        == item.requiring
      upgrades == IF item.upgraded # NONE /\ r # NONE THEN Upgrades(r) ELSE {}
      possible == {u \in upgrades : PackageIsPossible(c, u)}
      settled  == \E u \in possible : \A d \in world.requires[u] : RequirementIsMet(c, d, FALSE)
      removal  == IF r # NONE /\ (c.verifying \/ ~settled)
                  THEN <<[UninstallItem(r) EXCEPT !.removeOnly = item.removeOnly]>> ELSE <<>>
      installs == Map(LAMBDA u : InstallItem(u, r, {}, FALSE), InOrder(possible))
  IN  CASE upgrades # {} -> Outcome(c, <<BranchItem(installs \o removal)>>)
        [] upgrades = {} /\ removal # <<>> -> Outcome(c, removal)
        [] OTHER -> Outcome(AddError(c), <<>>)

ProcessRequire(c, item) ==
  LET providers == InstallableProviders(c, item)
      neededBy  == {item.requiring} \ {NONE}
      installs  == Map(LAMBDA p : NewInstall(p, neededBy, FALSE), providers)
  IN  CASE RequirementIsMet(c, item.dep, item.isChild) -> Outcome(c, <<>>)
        [] OTHER -> IF providers = <<>> THEN ReplaceRequirer(c, item)
                    ELSE IF Len(providers) = 1 THEN Outcome(c, installs)
                    ELSE Outcome(c, <<BranchItem(installs)>>)

\* Every package that verifies the conflict goes: the installed ones are
\* queued for removal, a to-be-installed one is an error, an available one is
\* marked as uninstallable.  The code does not expect an unlinked one.
ProcessConflict(c, item) ==
  LET match  == {p \in (IF item.obsolete THEN OwnProviders ELSE Providers)[item.dep] :
                   item.conflicting = NONE \/ ~SameSpec(p, item.conflicting)}
      of(S)  == {p \in match : GetStatus(c, p) \in S}
      remove == Map(LAMBDA p : [UninstallItem(p) EXCEPT !.obsolete = item.obsolete],
                    InOrder(of({"INSTALLED", "TO_BE_INSTALLED_SOFT"})))
      marked == [c EXCEPT !.chain[1] =
                   [p \in Pkg |-> IF p \in of({"UNINSTALLED"}) THEN "TO_BE_UNINSTALLED" ELSE @[p]]]
      after  == IF of({"TO_BE_INSTALLED"}) # {} THEN AddError(c) ELSE marked
  IN  [Outcome(after, remove) EXCEPT !.aborted = of({"DUE_TO_UNLINK"}) # {}]

\* An unlink is dropped when the package is wanted, or when taking it away
\* would leave a present package without a requirement.
UnlinkCancelled(c, p) ==
  LET without == SetStatus(c, p, "TO_BE_UNINSTALLED")
  IN  CASE GetStatus(c, p) = "TO_BE_INSTALLED" -> TRUE
        [] GetStatus(c, p) = "INSTALLED" ->
             \E x \in Requiring(p) \cup Parents(p) :
               IsPresent(without, x[1]) /\ ~RequirementIsMet(without, x[2], FALSE)
        [] OTHER -> FALSE

\* The check marks the package and marks it back.
AfterUnlinkCheck(c, p) ==
  IF GetStatus(c, p) = "INSTALLED"
  THEN SetStatus(SetStatus(c, p, "TO_BE_UNINSTALLED"), p, "INSTALLED") ELSE c

\* Faulty: the children are removed instead of being unlinked.
UninstallConsequencesRemoving(c, item) ==
  LET p    == item.package
      lost(x) == IsPresent(c, x[1]) /\ ~RequirementIsMet(c, x[2], FALSE)
      used == PairsInOrder({x \in Requiring(p) : lost(x)})
              \o PairsInOrder({x \in Parents(p) : lost(x)})
      only == DepsInOrder({d \in world.children[p] : SingleProvider(d) # NONE})
  IN  Map(LAMBDA x : RequireItem(x[2], x[1], FALSE, item.removeOnly, item.upgradedTo), used)
      \o Map(LAMBDA d : UninstallItem(SingleProvider(d)), only)

\* Removing an installed package: whoever loses a requirement is looked at
\* again, and so are its parents; its children are unlinked.
UninstallConsequences(c, item) ==
  LET p      == item.package
      lost(x) == IsPresent(c, x[1]) /\ ~RequirementIsMet(c, x[2], FALSE)
      losers == PairsInOrder({x \in Requiring(p) : lost(x)})
                \o PairsInOrder({x \in Parents(p) : lost(x)})
      only   == DepsInOrder({d \in world.children[p] : SingleProvider(d) # NONE})
  IN  Map(LAMBDA x : RequireItem(x[2], x[1], FALSE, item.removeOnly, item.upgradedTo), losers)
      \o Map(LAMBDA d : [UninstallItem(SingleProvider(d)) EXCEPT !.unlink = TRUE], only)

\* Faulty: locks are not looked at.
ProcessUninstallUnlocked(c, item) ==
  LET p     == item.package
      after == UninstallPackage(c, p, item.obsolete, item.unlink)
  IN  IF item.unlink /\ UnlinkCancelled(c, p) THEN Outcome(c, <<>>)
      ELSE IF GetStatus(c, p) # "INSTALLED" THEN Outcome(after, <<>>)
      ELSE Outcome(after, UninstallConsequences(after, item))

ProcessUninstall(c, item) ==
  LET p       == item.package
      status  == GetStatus(c, p)
      checked == IF item.unlink THEN AfterUnlinkCheck(c, p) ELSE c
      after   == UninstallPackage(checked, p, item.obsolete, item.unlink)
  IN  CASE item.unlink /\ UnlinkCancelled(c, p) -> Outcome(checked, <<>>)
        [] ~(item.unlink /\ UnlinkCancelled(c, p)) /\ status # "INSTALLED" -> Outcome(after, <<>>)
        [] OTHER -> IF ~item.explicit /\ p \in world.locked
                    THEN Outcome(AddError(after), <<>>)
                    ELSE Outcome(after, UninstallConsequences(after, item))

ProcessSimple(c, item) ==
  CASE item.type = "install"   -> ProcessInstall(c, item)
    [] item.type = "require"   -> ProcessRequire(c, item)
    [] item.type = "conflict"  -> ProcessConflict(c, item)
    [] item.type = "uninstall" -> ProcessUninstall(c, item)

\* Faulty: passing a branch on counts as progress.
ProcessBranchBusy(c, item) ==
  IF item.possible # <<>> /\ Len(item.possible) = 1
  THEN ProcessSimple(c, item.possible[1]) ELSE Outcome(c, <<item>>)

\* A branch with an alternative that is already satisfied is done, one with
\* a single alternative is that alternative, and any other is passed on.
ProcessBranch(c, item) ==
  LET satisfied == \E i \in DOMAIN item.possible :
                     item.possible[i].type = "install" /\ IsPresent(c, item.possible[i].package)
  IN  CASE satisfied \/ item.possible = <<>> -> Outcome(c, <<>>)
        [] ~satisfied /\ Len(item.possible) = 1 -> ProcessSimple(c, item.possible[1])
        [] OTHER -> [Outcome(c, <<item>>) EXCEPT !.did = FALSE]

ProcessItem(c, item) ==
  IF item.type = "branch" THEN ProcessBranch(c, item) ELSE ProcessSimple(c, item)

-----------------------------------------------------------------------------

SameItem(a, b) == a.type = b.type /\ SameSpec(a.package, b.package)

\* The possible items of the branch sub are found in branch in one pass.
BranchContains(branch, sub) ==
  LET big == branch.possible
      sml == sub.possible
  IN  \E f \in [DOMAIN sml -> DOMAIN big] :
        /\ \A i, j \in DOMAIN sml : i < j => f[i] < f[j]
        /\ \A i \in DOMAIN sml : SameItem(big[f[i]], sml[i])

\* A branch is copied with its alternatives in reverse, and some flags are not copied.
CopyItem(item) ==
  CASE item.type = "branch"   -> [item EXCEPT !.possible = Reverse(@)]
    [] item.type = "install"  -> [item EXCEPT !.explicit = FALSE]
    [] item.type = "require"  -> [item EXCEPT !.isChild = FALSE]
    [] item.type = "conflict" -> [item EXCEPT !.obsolete = FALSE]
    [] OTHER -> item

=============================================================================
