---------------------------- MODULE PackageWorld ----------------------------
(***************************************************************************)
(* What the dependency resolver can ask of the world it resolves against:  *)
(* which packages exist and are installed, what they provide, require,     *)
(* conflict with and obsolete, and which of them are locked.               *)
(*                                                                         *)
(* A package is a model value.  PkgSeq lists the packages by name and then *)
(* by version, the order of rc_packman_version_compare, and is also the    *)
(* order in which the world's hash tables are walked.  A dependency is a   *)
(* model value too: what the resolver sees of it is the set of packages    *)
(* with a provide that verifies it (Providers), those whose provide has    *)
(* exactly its spec (ExactProviders), and those for which that provide is  *)
(* the package's own name and version (OwnProviders).                      *)
(***************************************************************************)
EXTENDS Integers, Sequences, FiniteSets, SequencesExt

CONSTANTS
  PkgSeq,          \* the packages, ordered by name and then by version
  DepSeq,          \* the dependencies that occur in the packages' arrays
  NameOf,          \* [Pkg -> name]
  VersionOf,       \* [Pkg -> Nat], ordered as versions of one name are
  PriorityOf,      \* [Pkg -> Nat], the priority of the package's channel
  SizeOf,          \* [Pkg -> Nat], the size of the package file
  DiskSizeOf,      \* [Pkg -> Nat], the size of the package once installed
  Providers,       \* [Dep -> SUBSET Pkg]
  ExactProviders,  \* [Dep -> SUBSET Pkg]
  OwnProviders,    \* [Dep -> SUBSET Pkg]
  Worlds,          \* the worlds that are resolved against
  NONE             \* the null package

Pkg == {PkgSeq[i] : i \in DOMAIN PkgSeq}
Dep == {DepSeq[i] : i \in DOMAIN DepSeq}

(***************************************************************************)
(* The part of a world that varies: the packages of the system channel,    *)
(* those a lock matches, and the arrays of dependencies of each package.   *)
(***************************************************************************)
WorldType ==
  [installed : SUBSET Pkg,  locked : SUBSET Pkg,
   requires  : [Pkg -> SUBSET Dep],  children  : [Pkg -> SUBSET Dep],
   conflicts : [Pkg -> SUBSET Dep],  obsoletes : [Pkg -> SUBSET Dep]]

ASSUME UniverseAssumption ==
  /\ PkgSeq \in Seq(Pkg) /\ DepSeq \in Seq(Dep)
  /\ NONE \notin Pkg
  /\ VersionOf \in [Pkg -> Nat]
  /\ PriorityOf \in [Pkg -> Nat]
  /\ SizeOf \in [Pkg -> Nat] /\ DiskSizeOf \in [Pkg -> Nat]
  /\ Providers \in [Dep -> SUBSET Pkg]
  /\ \A d \in Dep : OwnProviders[d] \cup ExactProviders[d] \subseteq Providers[d]
  /\ Worlds \subseteq WorldType

VARIABLE world

SameSpec(p, q) == NameOf[p] = NameOf[q] /\ VersionOf[p] = VersionOf[q]

PkgPosition == [p \in Pkg |-> CHOOSE i \in DOMAIN PkgSeq : PkgSeq[i] = p]
DepPosition == [d \in Dep |-> CHOOSE i \in DOMAIN DepSeq : DepSeq[i] = d]
PairPosition ==
  [x \in Pkg \X Dep |-> PkgPosition[x[1]] * (Len(DepSeq) + 1) + DepPosition[x[2]]]

\* The elements of a set as a sequence, in the order of their positions, which
\* are pairwise different: the k-th is the one whose position is the k-th of all.
Nth(placed, k) ==
  CHOOSE t \in placed : Cardinality({u \in placed : u[1] <= t[1]}) = k

Listed(S, position) ==
  LET placed == {<<position[x], x>> : x \in S}
  IN  [k \in 1..Cardinality(placed) |-> Nth(placed, k)[2]]

\* The order in which the world visits packages, the dependencies of a
\* package, and packages together with one of their dependencies.
InOrder(S)      == Listed(S, PkgPosition)
DepsInOrder(D)  == Listed(D, DepPosition)
PairsInOrder(X) == Listed(X, PairPosition)
FirstOf(S)      == CHOOSE p \in S : \A q \in S : PkgPosition[p] <= PkgPosition[q]

\* The pairs <<r, d>> such that r requires (has as a child) d and p verifies
\* d, and the packages that conflict with something that p provides.
Requiring(p)   == {x \in Pkg \X Dep : x[2] \in world.requires[x[1]] /\ p \in Providers[x[2]]}
Parents(p)     == {x \in Pkg \X Dep : x[2] \in world.children[x[1]] /\ p \in Providers[x[2]]}
Conflicting(p) == {q \in Pkg : \E d \in world.conflicts[q] : p \in Providers[d]}

FindInstalledVersion(p) ==
  LET s == {q \in world.installed : NameOf[q] = NameOf[p]}
  IN  IF s = {} THEN NONE ELSE FirstOf(s)

\* The unlocked packages of the same name with a greater version.
Upgrades(p) ==
  {q \in Pkg \ world.locked : NameOf[q] = NameOf[p] /\ VersionOf[q] > VersionOf[p]}

\* The installed package that alone verifies d, NONE when there is not
\* exactly one spec among the installed ones.
SingleProvider(d) ==
  LET s == Providers[d] \cap world.installed
  IN  IF s # {} /\ \A p, q \in s : SameSpec(p, q) THEN FirstOf(s) ELSE NONE

=============================================================================
