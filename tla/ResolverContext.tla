--------------------------- MODULE ResolverContext ---------------------------
(***************************************************************************)
(* The context of a partial solution: what the resolver has decided about  *)
(* each package.  A context is a chain of levels, the youngest first; a    *)
(* level is the hash table of the packages marked since the last branch. A *)
(* branch gives each alternative a child context, so that what one         *)
(* alternative decides is invisible to the others.                         *)
(***************************************************************************)
EXTENDS PackageWorld

CONSTANTS
  MaxInt,        \* the priority that stands for "nothing installed yet"
  SizeModulus    \* 2^32: the sums of sizes are of type guint32

ASSUME MaxIntAssumption == MaxInt \in Nat /\ \A p \in Pkg : PriorityOf[p] < MaxInt

ASSUME ModulusAssumption == SizeModulus \in Nat \ {0}

ToBeInstalled   == {"TO_BE_INSTALLED", "TO_BE_INSTALLED_SOFT"}
ToBeUninstalled == {"TO_BE_UNINSTALLED", "DUE_TO_OBSOLETE", "DUE_TO_UNLINK"}
PackageStatus   == {"INSTALLED", "UNINSTALLED"} \cup ToBeInstalled \cup ToBeUninstalled
Mark            == PackageStatus \cup {"UNKNOWN"}

Unmarked == [p \in Pkg |-> "UNKNOWN"]

ContextType ==
  [chain : Seq([Pkg -> Mark]), minPriority : Nat, penalties : Int, download : Nat,
   disk : Nat, invalid : BOOLEAN, verifying : BOOLEAN]

NewContext(verifying) ==
  [chain |-> <<Unmarked>>, minPriority |-> MaxInt, penalties |-> 0, download |-> 0,
   disk |-> 0, invalid |-> FALSE, verifying |-> verifying]

\* Faulty: the child starts without what its parents have cost.
NewChildUncharged(c) == [NewContext(c.verifying) EXCEPT !.chain = @ \o c.chain]

NewChild(c) == [c EXCEPT !.chain = <<Unmarked>> \o @, !.invalid = FALSE]

GetStatus(c, p) ==
  LET marked == {i \in DOMAIN c.chain : c.chain[i][p] # "UNKNOWN"}
  IN  IF marked # {}
      THEN c.chain[CHOOSE i \in marked : \A j \in marked : i <= j][p]
      ELSE IF p \in world.installed THEN "INSTALLED" ELSE "UNINSTALLED"

\* Refused once the context is invalid; a mark that changes nothing is not made.
SetStatus(c, p, status) ==
  IF c.invalid \/ GetStatus(c, p) = status THEN c ELSE [c EXCEPT !.chain[1][p] = status]

AddError(c) == [c EXCEPT !.invalid = TRUE]

IsPresent(c, p) == GetStatus(c, p) \in ToBeInstalled \cup {"INSTALLED"}
IsAbsent(c, p)  == GetStatus(c, p) \in ToBeUninstalled \cup {"UNINSTALLED"}

\* Every level is visited: a package marked twice is visited twice.
MarkedPackages(c) == {m \in (DOMAIN c.chain) \X Pkg : c.chain[m[1]][m[2]] # "UNKNOWN"}

IsParallelInstall(c, p) ==
  \E m \in MarkedPackages(c) :
    /\ c.chain[m[1]][m[2]] \in ToBeInstalled
    /\ NameOf[m[2]] = NameOf[p] /\ ~SameSpec(m[2], p)

\* Faulty: the size is given back instead of being charged.
ChargeNegative(c, p, penalty, disk) ==
  [c EXCEPT !.download = @ - SizeOf[p], !.disk = @ + disk, !.penalties = @ + penalty]

\* What installing an uninstalled package costs the solution; an upgrade is
\* not charged its installed size.
Charge(c, p, penalty, disk) ==
  [c EXCEPT !.download = (@ + SizeOf[p]) % SizeModulus,
            !.disk = (@ + disk) % SizeModulus,
            !.minPriority = IF PriorityOf[p] < @ THEN PriorityOf[p] ELSE @,
            !.penalties = @ + penalty]

InstallPackage(c, p, penalty) ==
  LET status == GetStatus(c, p)
      new    == CASE c.verifying                 -> "TO_BE_INSTALLED_SOFT"
                  [] ~c.verifying /\ status = "DUE_TO_UNLINK" -> "INSTALLED"
                  [] OTHER                       -> "TO_BE_INSTALLED"
      marked == SetStatus(c, p, new)
  IN  CASE status \in ToBeUninstalled \ {"DUE_TO_UNLINK"} -> AddError(c)
        [] status \in ToBeInstalled                       -> c
        [] OTHER ->
             IF IsParallelInstall(c, p) THEN AddError(c)
             ELSE IF status = "UNINSTALLED" THEN Charge(marked, p, penalty, DiskSizeOf[p]) ELSE marked

\* Unlike InstallPackage, it is no error that the package is to be
\* uninstalled, and a parallel install is not looked for.
UpgradePackage(c, p, penalty) ==
  LET status == GetStatus(c, p)
      marked == SetStatus(c, p, IF c.verifying THEN "TO_BE_INSTALLED_SOFT" ELSE "TO_BE_INSTALLED")
  IN  CASE status \in ToBeUninstalled \cup ToBeInstalled -> c
        [] status = "UNINSTALLED"                        -> Charge(marked, p, penalty, 0)
        [] OTHER                                         -> marked

\* Faulty: a package to be installed can still be uninstalled.
UninstallPackageAnyway(c, p, obsolete, unlink) ==
  IF GetStatus(c, p) \in ToBeUninstalled \ {"DUE_TO_UNLINK"} THEN c
  ELSE SetStatus(c, p, IF obsolete THEN "DUE_TO_OBSOLETE"
                       ELSE IF unlink THEN "DUE_TO_UNLINK" ELSE "TO_BE_UNINSTALLED")

UninstallPackage(c, p, obsolete, unlink) ==
  LET status == GetStatus(c, p)
  IN  CASE status = "TO_BE_INSTALLED" -> AddError(c)
        [] status \in ToBeUninstalled \ {"DUE_TO_UNLINK"} -> c
        [] OTHER -> SetStatus(c, p, IF obsolete THEN "DUE_TO_OBSOLETE"
                                    ELSE IF unlink THEN "DUE_TO_UNLINK"
                                    ELSE "TO_BE_UNINSTALLED")

RequirementIsMet(c, d, isChild) ==
  \E p \in (IF isChild THEN ExactProviders[d] ELSE Providers[d]) : IsPresent(c, p)

RequirementIsPossible(c, d) ==
  \E p \in Providers[d] : GetStatus(c, p) \notin ToBeUninstalled \ {"DUE_TO_UNLINK"}

PackageIsPossible(c, p) ==
  \A d \in world.requires[p] \cup world.children[p] : RequirementIsPossible(c, d)

-----------------------------------------------------------------------------
(* What a solution does, counted over the marks, and how two compare.      *)

InstallMarks(c) ==
  {m \in MarkedPackages(c) :
     /\ c.chain[m[1]][m[2]] \in ToBeInstalled /\ m[2] \notin world.installed
     /\ FindInstalledVersion(m[2]) = NONE}

UpgradeMarks(c) ==
  {m \in MarkedPackages(c) :
     /\ c.chain[m[1]][m[2]] \in ToBeInstalled /\ m[2] \notin world.installed
     /\ FindInstalledVersion(m[2]) # NONE}

UninstallMarks(c) ==
  {m \in MarkedPackages(c) :
     /\ c.chain[m[1]][m[2]] \in ToBeUninstalled /\ m[2] \in world.installed
     /\ \A u \in UpgradeMarks(c) : NameOf[u[2]] # NameOf[m[2]]}

ChurnFactor(c) ==
  Cardinality(UpgradeMarks(c)) + 2 * Cardinality(InstallMarks(c)) + 4 * Cardinality(UninstallMarks(c))

\* rc_resolver_context_partial_cmp (a, b) > 0: high channel priorities are
\* good, then little churn, then low penalties.
PartiallyBetter(a, b) ==
  \/ a.minPriority > b.minPriority
  \/ /\ a.minPriority = b.minPriority
     /\ \/ ChurnFactor(a) < ChurnFactor(b)
        \/ ChurnFactor(a) = ChurnFactor(b) /\ a.penalties < b.penalties

\* rc_resolver_context_cmp (a, b) > 0.
Better(a, b) ==
  \/ PartiallyBetter(a, b)
  \/ /\ ~PartiallyBetter(b, a)
     /\ \/ a.download < b.download
        \/ a.download = b.download /\ a.disk < b.disk

=============================================================================
