------------------------------- MODULE WorldStore -------------------------------
(***************************************************************************)
(* The world that keeps its packages in memory, RCWorldStore: a list of    *)
(* the packages, with an index of what each provides, requires, contains   *)
(* and conflicts with, a list of channels and one of locks.  The hash      *)
(* tables of the program are lists here: the list of a name is what is     *)
(* left of the whole list when the others are dropped.  A client follows   *)
(* the world by its sequence number, and may look at it on its own or from *)
(* a handler of the signal that the number has changed.                    *)
(***************************************************************************)
EXTENDS Integers, Sequences, FiniteSets, SequencesExt

CONSTANTS
  Package, Channel, Dep, Lock,
  SpecOf,      \* the RCPackageSpec of a package: name, version and arch
  ChannelOf,   \* the channel a package is in
  System,      \* the channels whose packages are installed
  Hidden,      \* the channels that are hidden
  Score,       \* the compatibility of an arch, negative for none; less is better
  DepsOf,      \* the provides, requires, children, recommends and conflicts
  DepName, DepChannel,
  Meets,       \* <<d, e>>: the provision e meets the requirement d
  ANY,         \* RC_CHANNEL_ANY
  MaxPackages, MaxSequence   \* bounds on the model

Kind == {"provides", "requires", "children", "conflicts"}

\* What the constants are, assumed wherever they are given values.
StoreAssumption ==
  /\ DOMAIN SpecOf = Package /\ ChannelOf \in [Package -> Channel]
  /\ System \subseteq Channel /\ Hidden \subseteq Channel /\ ANY \notin Channel
  /\ \A k \in Kind \cup {"recommends"} : DepsOf[k] \in [Package -> Seq(Dep)]
  /\ DOMAIN DepName = Dep /\ DepChannel \in [Dep -> Channel \cup {ANY}]
  /\ Meets \subseteq Dep \X Dep
  /\ MaxPackages \in Nat /\ MaxSequence \in Nat \ {0}

VARIABLES
  packages,   \* packages_by_name
  index,      \* for each kind the list of RCPackageAndDeps
  channels,   \* channels
  locks,      \* the locks of the store
  lockStore,  \* lock_store, the locks of the RCWorld it extends
  seqNo,      \* seq_no_packages
  seen,       \* what the client has last seen: a sequence number and packages, and
              \* whether it was in a handler of changed_packages
  did         \* the last operation, if it adds a package or removes a channel, and which

vars == <<packages, index, channels, locks, lockStore, seqNo, seen, did>>

Pads == [package : Package, dep : Dep]

TypeOK ==
  /\ packages \in Seq(Package) /\ Len(packages) <= MaxPackages
  /\ index \in [Kind -> Seq(Pads)]
  /\ channels \in Seq(Channel)
  /\ locks \in Seq(Lock) /\ lockStore \in Seq(Lock)
  /\ seqNo \in 1..MaxSequence
  /\ seen \in [seq : 0..MaxSequence, view : SUBSET Package, inHandler : BOOLEAN]
  /\ seen.seq <= seqNo

\* rc_package_is_installed; rc_channel_equal, for a wildcard and a channel.
IsInstalled(p)     == ChannelOf[p] \in System
ChannelEqual(c, d) == c = ANY \/ d = ANY \/ c = d

IsShown(p)  == ChannelOf[p] \notin Hidden
View(store) == {p \in Range(store) : IsShown(p)}

Init ==
  /\ packages = <<>> /\ index = [k \in Kind |-> <<>>] /\ channels = <<>>
  /\ locks = <<>> /\ lockStore = <<>>
  /\ seqNo = 1 /\ seen = [seq |-> 0, view |-> {}, inHandler |-> FALSE] /\ did = <<"other">>

-----------------------------------------------------------------------------
\* Queries.

\* What a list has of a set, in its order: the k-th is the one up to which there are k.
Kept(s, A) ==
  LET places  == {i \in 1..Len(s) : s[i] \in A}
      rank(i) == Cardinality({j \in places : j <= i})
  IN  [k \in 1..Cardinality(places) |-> s[CHOOSE i \in places : rank(i) = k]]

ByName(store, name) == Kept(store, {p \in Package : SpecOf[p].name = name})

\* Packages that are installed hide those that are not and have the same spec.
NotHiddenBy(p, installed) ==
  IsInstalled(p) \/ ~\E q \in installed : SpecOf[q] = SpecOf[p]

\* rc_world_store_foreach_package_fn, with a name
ForeachPackage(store, name, channel) ==
  LET list      == ByName(store, name)
      installed == {p \in Range(list) : IsInstalled(p)}
  IN  Kept(list, {p \in Package : /\ ChannelEqual(channel, ChannelOf[p])
                                   /\ NotHiddenBy(p, installed)})

\* The same without a name: what is installed hides nothing ("FIXME", rc-world-store.c:229).
ForeachNameless(store, channel) == Kept(store, {p \in Package : ChannelEqual(channel, ChannelOf[p])})

\* The pads of a kind that are listed by the name of a dependency and that fit,
\* without those an installed one hides.
ForeachPad(kind, dep, fits) ==
  LET list      == Kept(index[kind], {pad \in Pads : DepName[pad.dep] = DepName[dep]})
      installed == {p \in {pad.package : pad \in Range(list)} : IsInstalled(p)}
  IN  Kept(list, {pad \in fits : NotHiddenBy(pad.package, installed)})

\* rc_package_and_dep_verify_relation
PadVerifies(pad, dep) ==
  <<dep, pad.dep>> \in Meets /\ ChannelEqual(ChannelOf[pad.package], DepChannel[dep])

Meeting(dep) == {pad \in Pads : <<pad.dep, dep>> \in Meets}

ForeachProviding(dep)   == ForeachPad("provides", dep, {pad \in Pads : PadVerifies(pad, dep)})
ForeachRequiring(dep)   == ForeachPad("requires", dep, Meeting(dep))
ForeachParent(dep)      == ForeachPad("children", dep, Meeting(dep))
ForeachConflicting(dep) == ForeachPad("conflicts", dep, Meeting(dep))

\* rc_world_get_package: the first with that spec in that channel, if any.
GetPackage(store, channel, spec) ==
  Kept(ForeachPackage(store, spec.name, channel), {p \in Package : SpecOf[p] = spec})

\* rc_world_contains_channel
ContainsChannel(channel) == \E c \in Range(channels) : ChannelEqual(c, channel)

-----------------------------------------------------------------------------
\* Changes.

\* rc_world_touch_package_sequence_number: a client that looks from its handler sees the
\* packages as they are when the signal is emitted, before any table has changed.
Touch(times, store) ==
  /\ seqNo + times <= MaxSequence
  /\ seqNo' = seqNo + times
  /\ \/ seen' = seen
     \/ /\ times > 0
        /\ seen' = [seq |-> seqNo + times, view |-> View(store), inHandler |-> TRUE]

\* hashed_slist_add: lists grow at the front.
PadsOf(kind, p) ==
  LET deps == IF kind = "requires" THEN DepsOf["requires"][p] \o DepsOf["recommends"][p]
              ELSE DepsOf[kind][p]
  IN  Reverse([i \in 1..Len(deps) |-> [package |-> p, dep |-> deps[i]]])

Indexed(idx, p) == [k \in Kind |-> PadsOf(k, p) \o idx[k]]

\* Faulty: conflicts are not removed with their package.
UnindexedButConflicts(idx, gone) ==
  [k \in Kind |-> IF k = "conflicts" THEN idx[k]
                  ELSE Kept(idx[k], {pad \in Pads : pad.package \notin gone})]

\* hashed_slist_foreach_remove, on all the tables
Unindexed(idx, gone) ==
  [k \in Kind |-> Kept(idx[k], {pad \in Pads : pad.package \notin gone})]

Without(store, gone) == Kept(store, Package \ gone)

\* What replaces or keeps out a package that is to be added.
Duplicate(p) == GetPackage(packages, ChannelOf[p], SpecOf[p])

\* The early returns of rc_world_store_add_package: an arch that does not fit, a
\* package that is there already, one that is newer or has a better arch.
Accepts(p) ==
  LET dups == Duplicate(p)
      dup  == Head(dups)
  IN  IsInstalled(p) \/
      /\ Score[SpecOf[p].arch] >= 0
      /\ dups # <<>> =>
           /\ dup # p
           /\ SpecOf[p].version >= SpecOf[dup].version
           /\ ~( /\ SpecOf[p].version = SpecOf[dup].version
                 /\ Score[SpecOf[p].arch] > Score[SpecOf[dup].arch])

Replaced(p) ==
  LET dups == Duplicate(p)
  IN  IF IsInstalled(p) \/ dups = <<>> THEN {} ELSE {Head(dups)}

\* rc_world_store_add_package: the duplicate is removed, which touches the number,
\* then the number is touched again, then the package is put in.
AddPackage(p) ==
  LET replaced == Replaced(p)
      rest     == Without(packages, replaced)
  IN  /\ Accepts(p)
      /\ Len(rest) < MaxPackages
      /\ Touch(IF ~IsShown(p) THEN 0 ELSE IF replaced = {} THEN 1 ELSE 2, rest)
      /\ packages' = <<p>> \o rest
      /\ index' = Indexed(Unindexed(index, replaced), p)
      /\ did' = <<"add", p>>
      /\ UNCHANGED <<channels, locks, lockStore>>

AddIgnored(p) ==
  /\ ~Accepts(p)
  /\ did' = <<"other">>
  /\ UNCHANGED <<packages, index, channels, locks, lockStore, seqNo, seen>>

\* rc_world_store_remove_package
RemovePackage(p) ==
  /\ p \in Range(packages)
  /\ Touch(IF IsShown(p) THEN 1 ELSE 0, packages)
  /\ packages' = Without(packages, {p}) /\ index' = Unindexed(index, {p})
  /\ did' = <<"other">>
  /\ UNCHANGED <<channels, locks, lockStore>>

Touches(c) == c \notin Hidden

\* rc_world_store_remove_packages, and with ANY rc_world_store_clear
RemovePackages(c) ==
  LET gone == {q \in Package : ChannelEqual(ChannelOf[q], c)}
  IN  /\ packages # <<>>
      /\ Touch(IF Touches(c) THEN 1 ELSE 0, packages)
      /\ packages' = Without(packages, gone) /\ index' = Unindexed(index, gone)
      /\ did' = <<"removePackages", c>>
      /\ UNCHANGED <<channels, locks, lockStore>>

\* rc_world_store_add_channel; clients add a channel once.
AddChannel(c) ==
  /\ c \notin Range(channels)
  /\ channels' = <<c>> \o channels
  /\ did' = <<"other">>
  /\ UNCHANGED <<packages, index, locks, lockStore, seqNo, seen>>

\* rc_world_store_remove_channel
RemoveChannel(c) ==
  LET gone == {q \in Package : ChannelOf[q] = c}
  IN  /\ ContainsChannel(c)
      /\ Touch(IF Touches(c) THEN 1 ELSE 0, packages)
      /\ packages' = Without(packages, gone) /\ index' = Unindexed(index, gone)
      /\ channels' = Kept(channels, Channel \ {c})
      /\ did' = <<"removeChannel", c>>
      /\ UNCHANGED <<locks, lockStore>>

\* The client looks at the world on its own: it asks for the number, then for the
\* packages.
Look ==
  /\ seen' = [seq |-> seqNo, view |-> View(packages), inHandler |-> FALSE]
  /\ did' = <<"other">>
  /\ UNCHANGED <<packages, index, channels, locks, lockStore, seqNo>>

-----------------------------------------------------------------------------
\* Locks: rc_world_store_add_lock and its kind are about the list of the store, of
\* rc_world_add_lock and its kind about that of the RCWorld.

StoreAddLock(l) ==
  /\ l \notin Range(locks) \cup Range(lockStore)
  /\ locks' = <<l>> \o locks /\ did' = <<"other">>
  /\ UNCHANGED <<packages, index, channels, lockStore, seqNo, seen>>

AddLock(l) ==
  /\ l \notin Range(locks) \cup Range(lockStore)
  /\ lockStore' = <<l>> \o lockStore /\ did' = <<"other">>
  /\ UNCHANGED <<packages, index, channels, locks, seqNo, seen>>

StoreRemoveLock(l) ==
  /\ l \in Range(locks)
  /\ locks' = RemoveFirst(locks, l) /\ did' = <<"other">>
  /\ UNCHANGED <<packages, index, channels, lockStore, seqNo, seen>>

RemoveLock(l) ==
  /\ l \in Range(lockStore)
  /\ lockStore' = RemoveFirst(lockStore, l) /\ did' = <<"other">>
  /\ UNCHANGED <<packages, index, channels, locks, seqNo, seen>>

StoreClearLocks ==
  /\ locks # <<>> /\ locks' = <<>> /\ did' = <<"other">>
  /\ UNCHANGED <<packages, index, channels, lockStore, seqNo, seen>>

ClearLocks ==
  /\ lockStore # <<>> /\ lockStore' = <<>> /\ did' = <<"other">>
  /\ UNCHANGED <<packages, index, channels, locks, seqNo, seen>>

\* rc_world_store_foreach_lock_fn
ForeachLock == locks

Next ==
  \/ \E p \in Package : AddPackage(p) \/ AddIgnored(p) \/ RemovePackage(p)
  \/ \E c \in Channel \cup {ANY} : RemovePackages(c)
  \/ \E c \in Channel : AddChannel(c) \/ RemoveChannel(c)
  \/ Look
  \/ \E l \in Lock : StoreAddLock(l) \/ AddLock(l) \/ StoreRemoveLock(l) \/ RemoveLock(l)
  \/ StoreClearLocks \/ ClearLocks

Spec == Init /\ [][Next]_vars

-----------------------------------------------------------------------------
\* How often an element is in a list, and how often a package declares a dependency.
Times(s, e) == Cardinality({i \in 1..Len(s) : s[i] = e})

Declared(k, p, d) ==
  Times(DepsOf[k][p], d) + IF k = "requires" THEN Times(DepsOf["recommends"][p], d) ELSE 0

\* Every table lists the dependencies of the packages that are held and no others,
\* each as often as its package is (hashed_slist_add and hashed_slist_foreach_remove
\* keep five tables in step).
IndexesAgree ==
  \A k \in Kind : \A p \in Package : \A d \in Dep :
    Times(index[k], [package |-> p, dep |-> d]) = Times(packages, p) * Declared(k, p, d)

\* A client that has looked on its own, with the present sequence number, has seen the
\* packages that are there, those of hidden channels apart
\* (rc_world_get_package_sequence_number).
NumberTellsPackages == seen.seq = seqNo /\ ~seen.inHandler => seen.view = View(packages)

\* NumberTellsPackages for clients that look from a handler too.  It does not hold: the store
\* emits changed_packages before its tables change (rc-world-store.c:799, 932, 997), and the
\* number does not change again.
HandlersSeeTheChange == seen.seq = seqNo => seen.view = View(packages)

Alike(p, q) == SpecOf[p] = SpecOf[q] /\ ChannelOf[p] = ChannelOf[q]

HasTwins(store, p) ==
  \E i, j \in 1..Len(store) : i # j /\ Alike(store[i], p) /\ Alike(store[j], p)

\* A package that is added takes the place of the one like it in its channel - unless an
\* installed package of the same spec hides that one from rc_world_store_add_package.
TwinsAreReplaced ==
  [][\A p \in Package :
       /\ did' = <<"add", p>> /\ ~IsInstalled(p) /\ ~HasTwins(packages, p)
       /\ \A q \in Range(packages) : SpecOf[q] = SpecOf[p] => ~IsInstalled(q)
       => ~HasTwins(packages', p)]_vars

\* No channel holds two packages of one spec ("Ignoring re-add of package").  This holds
\* where nothing is installed, and nowhere else.
NoTwins == \A p \in Range(packages) : ~IsInstalled(p) => ~HasTwins(packages, p)

\* A channel holds one version of a package (the comment in
\* rc_world_store_add_package).
NewestIsKept ==
  \A p, q \in Range(packages) :
    /\ ~IsInstalled(p) /\ ChannelOf[p] = ChannelOf[q]
    /\ SpecOf[p].name = SpecOf[q].name
    => SpecOf[p].version = SpecOf[q].version

\* A package that is added drops none of the same version and arch (the comment in
\* rc_world_store_add_package).
FirstIsFavoured ==
  [][did'[1] = "add" =>
       \A p \in Range(packages) \ Range(packages') : SpecOf[p] # SpecOf[did'[2]]]_vars

NoTwinsAmong(found) ==
  \A p, q \in found : SpecOf[p] = SpecOf[q] => IsInstalled(p) = IsInstalled(q)

\* A package and an installed one of the same spec are never both the answer to a query by a
\* dependency or by a name (foreach_providing, foreach_requiring, foreach_parent,
\* foreach_conflicting, and foreach_package with a name).
TwinsAreSkipped ==
  /\ \A d \in Dep :
       \A found \in {ForeachProviding(d), ForeachRequiring(d),
                     ForeachParent(d), ForeachConflicting(d)} :
         NoTwinsAmong({pad.package : pad \in Range(found)})
  /\ \A name \in {SpecOf[p].name : p \in Package}, c \in Channel \cup {ANY} :
       NoTwinsAmong(Range(ForeachPackage(packages, name, c)))

\* The same of queries without a name.  It does not hold (rc-world-store.c:229, 298).
NamelessTwinsAreSkipped ==
  \A c \in Channel \cup {ANY} : NoTwinsAmong(Range(ForeachNameless(packages, c)))

\* Once a channel is removed no query finds a package of it, by name or by what it
\* provides or requires.
RemovedAreGone ==
  did[1] \in {"removeChannel", "removePackages"} =>
    \A p \in Package : ChannelEqual(ChannelOf[p], did[2]) =>
      /\ p \notin Range(packages)
      /\ \A k \in Kind : p \notin {pad.package : pad \in Range(index[k])}

\* If something provides a dependency, rc_world_foreach_providing_package finds
\* something that does.
ProviderIsShown ==
  \A d \in Dep :
    (\E pad \in Range(index["provides"]) : DepName[pad.dep] = DepName[d] /\ PadVerifies(pad, d))
      => ForeachProviding(d) # <<>>

\* What rc_world_add_lock has added rc_world_foreach_lock finds.
LocksAreShown == Range(lockStore) \subseteq Range(ForeachLock)

=============================================================================
