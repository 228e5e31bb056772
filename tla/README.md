# Models and proofs of libredcarpet

libredcarpet is the library under Red Carpet: it knows which packages are
installed and which are available, resolves the dependencies of what a user
wants to change, and carries out the result. This directory holds TLA+ models
of it, configurations that check them with TLC, and proofs for TLAPS. Every
definition is translated from the source under `src/`; `PROJECT.json` maps each
one to the lines it stands for.

## 1. Inventory

Everything runs in one thread, under a glib main loop. Nothing is protected by
locks, but calls nest: a signal handler, a callback of a query, or a nested main
loop may change what its caller is walking. Other processes change the package
database, the status file of dpkg, directories and files of the library.

| Part | State | Operations | Talks to |
|---|---|---|---|
| Resolver (`rc-resolver.c`) | the request; queues pending, complete, pruned, deferred, invalid; the best context | add to the request, verify the system, resolve | queue, world |
| Resolver queue (`rc-resolver-queue.c`) | a context and a list of items | add items, process to a fixed point, split at the first branch | items |
| Queue items (`rc-queue-item.c`) | install, require, conflict, uninstall, branch (and, never made, group) | process: change the context, create items | context, world queries |
| Context (`rc-resolver-context.c`, `-compare.c`) | a table of marks, a parent, sums and priorities, an error flag, a log | mark, ask, compare, log | packages, infos |
| World (`rc-world.c`) | virtual table, sequence numbers, locks, "refreshing" | query, refresh, transact | store, package manager, rollback |
| Multi world (`rc-world-multi.c`) | a list of subworlds with their duplicates; a pending; handlers of schemes | mount, remove, refresh and cut over, dispatch | subworlds, pendings |
| Store (`rc-world-store.c`) | tables of packages by name and dependency, channels, locks, a freeze count | add, remove, clear, freeze, thaw, query | listeners |
| System world (`rc-world-system.c`) | the installed packages as last loaded | sync, refresh, transact | package manager |
| Other worlds (service, synthetic, local directory, undump) | a store and where it came from | load, save, sync | files |
| Package manager (`rc-packman.c`; `rc-rpmman.c`, `rc-debman.c`) | a lock count, an error, the database and its modification time | lock, transact, query, compare versions, watch | librpm, dpkg |
| Pendings (`rc-pending.c`) | a status and progress, a table by id | begin, update, finish, abort, fail, look up | listeners |
| Rollback (`rc-rollback.c`) | a journal and saved files on disk | prepare, save or discard, replay | package manager, disk |
| Subscriptions, channels | lists, priorities, references | subscribe, load and save | disk |
| Packages, specs, dependencies, matches, updates | values; dependencies are shared and counted | compare, verify a dependency, match | – |
| Queries, resolver information | values | filter, merge, mark | – |
| XML, extraction, line buffer | a context of the parser | parse, write | files |
| Distributions, verification, checksums, utilities | none beyond a call | probe, check | files, programs |
| Bindings, tools, dependency tests | wrappers, drivers | – | the library |

What is hard about it, and for which parts:

* *Order of items.* The resolver decides item by item, each on the context that
  the items before it left. What an item has checked may cease to hold; what it
  queues must make up for it. This is the heart of the library, and its tests
  are recorded exercises over whole distributions.
* *Branches.* Alternatives share the context they grew from, are pruned,
  deferred, and cut off by a timeout.
* *Events during events.* A refresh of a multi world is spread over many
  callbacks, while clients query, mount and remove; a query of the status file
  runs a main loop in which a timer starts another; handlers of a signal call
  the object that emits it.
* *Caches.* System packages are cached in several worlds, against one shared
  modification time, in whole seconds; directories likewise; clients cache by
  sequence numbers.
* *Failure between steps.* Transactions over several worlds, with rollback
  information on disk; runs of dpkg with the lock given up; the steps of a
  transaction of rpm; files that are emptied before they are written.
* *Formats with several readers and writers*, and versions that are compared in
  parts, each with rules of its own.

What makes each part correct, in short: a solution is consistent, honours the
request and costs what it says; the search ends and offers the first of its
best solutions; a refresh is atomic, ends, and is reported; a store's tables
agree with each other; caches follow what they cache; lock and unlock pair up;
after a failure or a crash the journal and the saved files agree; what is
written is read back; versions are ordered. `PROJECT.json` lists under
`hazards` the lines where these can go wrong, with the properties about them.

## 2. Modules

A component's module has its state as variables and an action per operation, or
it is a set of operators (`PackageWorld`, `ResolverContext`, `QueueItem`,
`RollbackJournal`, `XmlTree`) that other modules build on.

| Module | Stands for | Checked by |
|---|---|---|
| `PackageWorld` | what the resolver can ask of a world, and sets listed in an order | `MCResolver` |
| `ResolverContext` | `rc-resolver-context.c` (marks and sums) and `rc-resolver-compare.c` | |
| `QueueItem` | `rc-queue-item.c`: an operator per kind of item, from a context and an item to an outcome | |
| `Resolver` | `rc-resolver-queue.c` and `rc-resolver.c`: the state machine | |
| `ResolverProperties` | what is promised of solutions and of the search | |
| `AtomicRefresh` | the promise of a refresh: until it ends nothing changes, then everything at once | `MCWorlds` |
| `WorldRefresh` | the list of subworlds and the refresh in `rc-world-multi.c` | |
| `ServiceMounts` | handlers of URI schemes, mounting and naming of services | |
| `SyntheticWorld` | the world of synthetic packages and its file | |
| `LocalDirWorld` | the world of the packages in a directory | |
| `UndumpWorld` | dumps of worlds, the world read from one, references of channels | |
| `SystemWorld` | system worlds, their duplicates, and the database of rpm behind them | `MCPackman` |
| `CountingLock` | the promise of the front end: a lock that counts | |
| `Packman` | the front end of the package managers, with handlers that call it | |
| `Debman` | the Debian back end: status file, locks, watch, transactions over dpkg | |
| `StatusReader` | the query that reads the status file in a main loop of its own | |
| `LineBuf` | lines from text that arrives in pieces | |
| `RpmTransact` | a transaction of the RPM back end | |
| `RollbackJournal`, `Transaction` | rollback, and transactions on a multi world that may fail or be killed | `MCTransaction` |
| `WorldStore` | the tables of a store | `MCStore` |
| `WorldQueries` | questions about upgrades, locks and subscriptions of a world | |
| `MultiQueries` | walks over subworlds and the sequence numbers of a multi world | |
| `Subscription` | the list of subscriptions and its file | |
| `Pending` | pendings, their table and its clean-up | |
| `DepCache` | shared dependencies and their references | |
| `Versions` | versions of rpm and dpkg, relations of dependencies, alternatives | `MCTexts` |
| `XmlTree`, `XmlSax` | packages as XML, and the reader on events | |
| `PackageFiles` | Packages files, apt lists, directories of packages | |
| `Queries` | queries over packages | |
| `ResolverInfo` | the log of the resolver, merged and marked | |
| `*_proofs` | lemmas and theorems about the module they are named after; `Resolver_proofs` also about `QueueItem`, `ResolverContext` and `ResolverProperties`, `MCWorlds_proofs` about `WorldRefresh`, `MCTransaction_proofs` about `Transaction`, `MCStore_proofs` about `WorldStore`, `MultiQueries`, `WorldQueries`, `Pending` and `Subscription` | |

**How the MC modules are made.** Components that do not share state are
instantiated side by side, each with variables of its own. A behaviour runs one
of them, its *part*; the others keep their initial state. `Parts`, given in the
cfg, says which parts a run has, and each property says what it asks of which
part. So one run checks a family of components in one pass. Where a property
is `[][A]_v` or a refinement it is stated of the instance without a condition,
since parts that do not run only stutter. An assumption about constants of an
instance (`DebmanAssumption` and so on) is an `ASSUME` of the MC module.

### The resolver

* `pending`, `deferred`, `complete`, `pruned`, `invalid` are the five lists of
  `RCResolver`, in their order; `best` is `best_context`; `cur` is the queue in
  hand, with the items of the pass that are left and the new ones; `pc` is the
  place in `rc_resolver_resolve_dependencies`.
* A context is `[chain, minPriority, penalties, download, disk, invalid,
  verifying]`. `chain` holds the status tables from the youngest context to the
  root: the code reaches parents by a pointer and never changes one that has
  children, so copies are equal to sharing.
* One action is one item: `InstallStep`, `RequireStep`, `ConflictStep`,
  `UninstallStep` and `BranchStep` are the body of
  `rc_resolver_queue_process_once` for an item of that kind, from its choice by
  priority to the items it creates. `EndPass` is the removal of super-branches
  and the test for another pass. `Reject`, `Complete`, `Prune` and `Split` are
  the four cases of the main loop, each with the end of the loop body.
* `Timeout` may happen at each look at the clock when a timeout is set.
* A failed assertion (`g_assert_not_reached`) leads to `pc = "aborted"`.
* Sizes are sums modulo `SizeModulus`, as `guint32` sums wrap.

A world is fixed during a resolution, as the code assumes. `Worlds` and
`Requests` are constants, and each run tries all of them. A package is a value
with name, version, priority and sizes; a dependency is the set of packages
that verify it, the set that match it exactly, and the set that do so with
their own name.

Left out: group items (`#if 0` in their only maker); `initial_items` and
`codependent_packages`, which nothing fills; the one-entry cache of the last
status; messages, of which only is kept that an error makes the context
invalid (the log is `ResolverInfo`). Several provides of one package that verify
the same dependency are visited once. Packages, dependencies and requests are
visited in the order of `PkgSeq` and `DepSeq`, where the code has the order of
hash tables and lists; the instances have both orders of what matters. Two
releases of one version are different versions.

`ResolverInfo` has a chain of contexts, each with infos; `AddInfo` is
`rc_resolver_context_add_info` with the merging of `rc_resolver_info_merge`,
and the marking of important infos goes in passes as in
`mark_important_info`. Importance spreads from the list of an info, not from the
package it is about, which is less than the comment on that function says. Texts
are model values, and the action and trigger of a miscellaneous info, which
nothing sets, are left out. At most 5 infos in 2 contexts, or 4 of those that
merge: of one text as an error and not, with packages and without, and several
requirements of one package. The items log neither of the last two, but a client
may.

### Worlds

`WorldRefresh`. A world is a service with a generation, 0 when mounted and
otherwise the number of the refresh that duplicated it. `subworlds` is the list
of `SubworldInfo`, `inProgress` the `RefreshInfo`s whose callback is still to
come, `multiPending` and `pendings` the pending of the multi world and the
status of every pending made, `held` those that a call of refresh has returned.
`BeginRefresh`, then `SkipSubworld`, `RefreshSubworldAtOnce` or
`RefreshSubworldLater` for each subworld, then `EndRefresh` are
`rc_world_multi_refresh_fn`; while `loop` is not 0 nothing else can happen.
`Immediate` says which refreshes end within the call (the system and the
synthetic world do); the others end with `RefreshedCb`. `RefreshedAborts` is the
assertion at `rc-world-multi.c:298`. When the cut over happens within the loop
the loop ends: `g_slist_remove_link` clears the link it stands on. When it
happens after the loop the pending is dropped without being finished, but then
no client has seen it. A refresh without subworlds changes nothing and is left
out, and so is a handler that calls the multi world from within `cut_over`. A
service that is mounted again is a new object, and here another service.

`ServiceMounts` has the handlers of schemes and the list of services; the
operations are those of `rc-world-service.c` and of the mounting in
`rc-world-multi.c`, with the numbering of names. `Types` are the types of the
services, the one that is looked up and one derived from it, as all those of the
library are: the look-up compares types with `==` and finds none of these.

`SyntheticWorld`: the file is absent, broken or a set of packages; the world
loads it, transacts and writes it, is
replaced by a duplicate without a file name when its multi world is refreshed,
and other programs write the file. Packages that are installed already are not
installed again. A file that cannot be opened fails the transaction; one that
cannot be written to its end does not.

`LocalDirWorld`: `Sync`, and the reading of the directory between whose steps
other programs add and remove files and the directory; times are in seconds.
Subdirectories, and the query part with a name or an alias, are left out.

`UndumpWorld`: a heap of channels with reference counts, locks as opaque
values, `Load` and the toggling of subscriptions by clients, and the dump of
what is there.

### Package managers

`SystemWorld` has the database as a number of changes, its modification time
`mtime` against `clock`, the state of the handle of `RCRpmman` (`status`,
`noted`, `clean`, `watchers`), the locks of clients and of others, and system
worlds with what each has `loaded`. Everything the thread does with the
database open is a job of several steps (`job`), between which other processes
change the database. Faults are failures to open and to read, changes within a
reading, and changes within a second.

`Packman`: calls are a stack, for a signal is emitted while the call that emits
it has not returned. `CountingLock` is refined with the count plus the calls
under way.

`Debman`: `pc` follows `rc_debman_transact` through marking, the three runs of
dpkg (`phase`), each with its child, the nested loop that polls it, and the
verification at the end. The operators on the status file come first. The
number of the step (`seqno`) is left out, and the status file is read in one
step there; `StatusReader` takes the reading apart, line by line, with a timer
that may start a query within the query (`Nested`, depth 2). In both, the file
may change within the second that the library has noted, so that nobody sees it
(`moved`, `unseen`).

`LineBuf` reads pieces cut anywhere. `RpmTransact` has the transaction set,
which from rpm 4.1 on (`Keeps`) lives as long as the database is open, the
adding of packages, the check, the run with its callbacks, and the failures of
each; rpm itself is external. A package that is only installed (`InstallOnly`)
replaces nothing and removes nothing that it obsoletes, though the library leaves
that to it.

### Transactions and rollback

`Transaction` follows `rc_world_transact` and `rc_world_multi_transact_fn`:
preparation of the rollback, the system world, the synthetic world, saving or
discarding, each of which may fail, with a kill between any two steps. The
operators of `RollbackJournal` stand for `rc-rollback.c`: changes of a file,
entries, actions for an earlier time, and what is restored of a file. Size,
owner and time of a file are part of its content or mode.

### Stores, subscriptions, pendings, dependencies

`WorldStore`: hash tables are lists; packages, channels and locks come and go, and
`View` is what a client sees, who looks on its own, or from a handler of
`changed_packages`, at which the tables have not changed yet (`Touch`). What a query picks from a list,
and what is left of a list when packages go, is `Kept`: the k-th of it is the element
up to which there are k of that kind. The prover knows nothing of `SelectSeq`.
`WorldQueries` holds packages as a list in callback order and asks
the questions of `rc-world.c` about upgrades, constraints and subscriptions. The packages
that locks are about are held packages. `MultiQueries`: a walk runs callbacks in
which subworlds come and go; changes touch sequence numbers, those of locks none
(`Silent`), and a client keeps an answer by its number, also one that a handler
has got before the tables have changed (`Early`). What a handler of
`subworld_added` asks before the numbers are touched is left out. `Subscription`: the file is written in one step, or not
(`NextWith` says which may happen), and its entries are `Kept` too; the time last seen
matters for old entries only. `Pending`: times, percentages and sizes
are small numbers. `DepCache`: the table of names, the records with their
references in a field of `RefBits` bits, holders and leaks; `created_provides`
is left out.

### Texts

`Versions`: a string is a sequence of character codes and an int has `IntBits`
bits (16 in the instances); a state holds strings and specs a client has met.
Missing releases make the comparison of rpm non-transitive when releases of
some are missing, so the specs compared there all have one; epochs are closer than half
the range. `XmlTree` and `XmlSax`: epoch, version and release are one value; the
order of dependencies is ignored; keys, summaries and descriptions are left
out. What the reader does that has freed a list of its own is left open (state
`FREED`). `PackageFiles` has lines, headers and entries that arrive one by one; the
last line may be cut short. Alternatives are compared with the capabilities of
dpkg.
`Queries`: the queried world is `rc_get_world()`; every package of a channel has
an update; names of types are left out.

## 3. Runs

| Run | Instance | What it shows |
|---|---|---|
| `resolver` | 16 packages; 768 worlds and 12 requests of upgrades, with locks, conflicts, obsoletes and a package set; 576 worlds and 9 requests of choices between providers, with channel priorities and timeouts; 1280 worlds and 6 requests of verifications and removals; 12 worlds and 3 requests in which several packages lose the same provider; 24 worlds and 2 requests with versions of a package side by side | see below |
| `worlds` | four services, ten initial lists, three refreshes, mounting and removing at all times; and, quietly, two refreshes; up to 3 services of 8 URLs and two types; 3 synthetic packages; a directory of 2 files over 4 seconds; 50 dumps | a refresh is atomic, shows loaded worlds, waits only for subworlds being refreshed, ends, and clients are told; what is saved, picked up and dumped is right, and only services of derived types share URLs, ids or names |
| `package_managers` | a system world alone with 3 changes in 3 seconds, or with a duplicate and clients under all faults; calls within calls to depth 3; two transactions of dpkg; two packages read from all status files, nested or not; all texts of 5 characters; transactions of rpm over 4 packages, one of them only installed | changes are seen, or lost in ways that have a name; locks last and are given back; transactions do what was asked |
| `package_managers_live` | a system world alone, one transaction of dpkg, a reader | caches get fresh unless a change was in the second of the last one noted, transactions end |
| `transactions` | two transactions over two packages in two seconds, with all failures and a kill between any steps, or with none | the journal is true; a rollback leads back |
| `stores` | stores of up to 3 of 6 packages, with locks while empty; lists of up to 4 packages; 2 channels subscribed over 3 times; 2 pendings over 5; 2 clients with shared dependencies; 2 and 4 subworlds | tables agree, numbers tell who asks on its own, upgrades agree, statuses and pendings are kept, references are holders |
| `texts` | all pairs of versions of up to 4 of 4 characters; 3 of 32 specs; documents of one or two of 180 packages, and all nestings of 7 elements, four deep; Packages files of 6 lines, cut anywhere in the last; apt lists of 14 bytes; directories; queries of up to 4 parts and 7 with groups; logs of 5 infos, and of 4 that merge | versions are ordered, files are read as written with named exceptions, queries select what matches, infos explain |
| `lost_upgrade`, `dropped_branch`, `mounted_meanwhile`, `rpm_locked`, `edited_file` | one world; 12 worlds; one refresh; rpm 4.1 under a lock; two transactions | what the code says of itself does not hold, see section 4 |

Properties of `resolver`, each a conjunction of parts in `ResolverProperties`:
in every solution a package has what it requires, if it is installed by the
solution, is verified, or had it before, with five exceptions that are below
(`RequirementsAreMet`); nothing conflicts that did not before and
two versions of a package are only installed as upgrades of one that is
installed, or of one that a verification has taken back (`GoTogether`, proved);
what was asked for is there, or its opposite is locked; what a verification
installs is only wanted softly, and goes again when something conflicts with it
(`rc-queue-item.c:1660`, `TakenBack`) (`RequestsAreHonoured`, proved);
nothing is removed without a reason (`NoGratuitousRemovals`); sums of sizes and
penalties agree with the marks and decide between solutions (`FiguresDecide`);
the best context is the first of the best (`BestIsFirstOfBest`, proved);
decisions stand (`DecisionsStand`, proved); and the resolver ends
(`Termination`).

What a package p requires, d, may stay unmet in a solution in these ways, and the
instance has each of them without the others:

* an upgrade that would have met d, or replaced p by a newer version, was ruled
  out before it was asked for (`LostUpgrade`, finding 1 of section 4);
* a verification installed it and took it back (`TakenBack`);
* p lost d to an upgrade and stays beside another version of itself
  (`InSeveralVersions`): the branch made to replace p counts as done as soon as
  one of its packages is there (`rc-queue-item.c:1220`);
* the branch made for p was dropped for one that is needed by a package that went
  (`ChosenFor`), or whose packages had been ruled out (`RuledOut`), finding 2.

*Why the bounds are enough.* A decision of the resolver relates at most the
package in hand, another version of it, one that requires it and one that
conflicts or provides instead; each kind of world has these for at least two
names that depend on each other, so that the consequences of an item come back
to its own package. Two alternatives in each of two branches are there at once,
which is what deferring, pruning and inheriting need. In the refresh, one world
of each kind occurs before and after each other kind; a second refresh meets
what the first left behind (flags, pendings, callbacks of removed subworlds)
and a third what the second did. For databases, directories and journals three
changes in three seconds give a change before, within and after a reading, in
the same second and in a later one; two transactions are the least after which
entries of one package are composed. Two holders of a lock or a dependency, two
pendings and two channels are the least for one to outlive the other. Every
short text is tried where texts are cut or compared.

For each property of a passing run `PROJECT.json` names a mutant: a definition
and a plausibly mistaken form of it (kept in the module under a comment
"Faulty"), for which the run must fail.

*Fairness.* The program is one thread that is never suspended, so weak fairness
of its next step is assumed where it has one to do: the resolver's `Work`, the
loop of a refresh, `Populate` and `Sync` of a directory (a client keeps
asking), `Loading` and the end of a transaction of a system world, the steps of
a reader (`Read`, `ReadDone`, `Return`), and those of a transaction of dpkg
(`Transacting`). A program that was killed is started again (`Restart`). Timers
fire: weak fairness of `Check`; strong fairness of `Watch`, since the timer of
rpm's database goes away while the database is open and comes back with each
close. That every duplicate gets refreshed is an
assumption on the subworlds (weak fairness of each `RefreshedCb`); it holds of
those in the library, which refresh within the call. A system world gets fresh
only if other processes and YaST do not hold the database for ever, which
`GetsFresh` assumes in its premise. Nothing is assumed of clients, of
other processes, or that changes go on. `MCResolver` states `WF_vars(Work)` in the
form of `KeepsWorking`: as the run shows that there is no deadlock, `Work` is
enabled until the loop has ended, so that it suffices that steps are taken for
ever unless it has; the form without `ENABLED` is much the faster to check.

*Refinements.* `WorldRefresh` implements `AtomicRefresh`
(`ImplementsAtomicRefresh`): a refresh replaces the worlds that it was begun
for in one step. `Packman` implements `CountingLock` (`IsCountingLock`): the
lock of the back end is held exactly while locks are counted.

`CHECK_DEADLOCK FALSE` is set where bounds on refreshes, times or changes, the
end of what is read, or a failed assertion stop the model; the runs of the
resolver check for deadlocks.

## 4. Where the code departs from what it says

Five disagreements have a run that must fail.

1. `lost_upgrade`: the result of `rc_resolver_context_upgrade_package` is
   ignored (`rc-queue-item.c:388`). An upgrade that was ruled out before is not
   made, its old version is removed nevertheless, and the solution lacks what
   both provided.
2. `dropped_branch`: a branch is dropped when it contains another one
   (`rc-resolver-queue.c:285`), which need not be for the same package: if the one
   that the other is needed by goes, its installs are skipped, and nobody looks at
   what the dropped branch was for. The same happens if all that the other would do
   is to replace an old version by a package that has been ruled out.
3. `mounted_meanwhile`: a subworld mounted during a refresh is waited for for
   ever (`rc-world-multi.c:220`).
4. `rpm_locked`: from rpm 4.1 on, under a lock, a transaction runs together
   with what an earlier one has put into the set (`rc-rpmman.c:1424`).
5. `edited_file`: a regular file whose content alone was edited is not put back
   (`rc-rollback.c:891`).

The others have a definition in the module of the part, which anybody can put
into a cfg as an invariant (or property) to see the behaviour. "As is" means
that the instance in the MC module shows it, in the part that is named;
otherwise the constants to change are given.

| Definition | Where | Instance | What happens |
|---|---|---|---|
| `NoParallelInstalls` | `rc-resolver-context.c:317` | requests for `a2` and `a3` | upgrades, unlike installs, are not checked for a second version of a name |
| `RequirementsAreMet` without `TakenBack` in `Forsaken` | `rc-queue-item.c:359` | as is | backing out of a soft install does not look at those that relied on it |
| `NoAssertionFails` | `rc-queue-item.c:1738` | an item that conflicts with a child of a removed set | `g_assert_not_reached` for a package due to be unlinked |
| `SmallerDownloadsAreBest` | `rc-resolver-context.c:295` | `SizeModulus = 3` | sums of sizes wrap at 4 GB, and the larger download is taken |
| `OriginalIsThere` | `rc-world-multi.c:298` | as is, `refresh` | a subworld removed during a refresh makes `g_assert (info != NULL)` fail |
| `MountedOnce`, `NamesDiffer` | `rc-world-multi.c:1029`, `:914` | as is, `mounts` | services are looked up by exact type, which none of the library's has |
| `OkMeansSaved` | `rc-world-service.c:60` | as is, `synthetic` | the duplicate of a synthetic world has no file name: its packages vanish and are not saved |
| `OkMeansSaved` | `rc-world-synthetic.c:131` | as is, `synthetic alone` | a dump that could not be written to its end counts as saved |
| `UnreadableIsReported` | `rc-world-synthetic.c:199` | a property of `SyntheticWorld` | a file that cannot be read is mounted as empty |
| `PicksUp` | `rc-world-local-dir.c:72`, `:78` | as is, `local dir remade`; `ManyPerSecond` | a directory that was away freezes the world for ever; a second change within a second is not seen |
| `AssertHolds` | `rc-world-undump.c:69` | `TogglesOnly = FALSE` | unsubscribing from a channel that is not subscribed drops a reference of the store |
| `NoChangeIsLost` | `rc-rpmman.c:279` | as is, `system` | closing the database notes its time though nobody has read it |
| `CountIsNotNegative` | `rc-packman.c:519` | a handler that unlocks | both calls decrement the count |
| `FailuresAreReported` (of `Packman`) | `rc-packman.c:609` | as is, `front` | a query by a handler clears the error of the transaction around it |
| `LockIsHeld` | `rc-debman.c:575` | as is, `debman` | the end of a transaction gives up the lock of the client |
| `NoActDoesNothing` | `rc-debman.c:2324` | as is, `debman` | packages are removed although the flag says not to act |
| `KilledHasAsked` | `rc-debman.c:977` | as is, `debman` | a request of one run of dpkg kills the next |
| `MarksAreFixed` | `rc-debman.c:484` | as is, `debman` | marks for removal stay when the lock cannot be had |
| `TableIsTheFile` | `rc-debman.c:2788` | as is, `status nested` | the query that was interrupted adds packages of the old file |
| `MalformedIsReported` | `rc-debman.c:2732` | malformed `Files` | the error of a malformed file is overwritten |
| `EveryChangeIsSeen`, `NeverStaysStale` | `rc-debman.c:163` | as is, `status` and `debman once`, as properties | a change within the second that was noted is never seen |
| `RemovedAreGone` (of `RpmTransact`) | `rc-rpmman.c:938`, `:1232` | as is, `rpm` | what a package obsoletes is left to rpm, which removes nothing for one that is only installed |
| `ReturnsAreChopped` | `rc-line-buf.c:247` | as is, `lines` | a read that ends before the newline leaves the carriage return |
| `DroppedAreGone` | `rc-rollback.c:844` | as is, `calm` | an upgrade after an install keeps the install from being rolled back |
| `LinksAreRestored` | `rc-rollback.c:899` | `Link` with a name | links are restored only when they are regular files |
| `NoTwins` | `rc-world-store.c:724` | as is, `store` | what an installed package hides is added to its channel again and again |
| `NamelessTwinsAreSkipped` | `rc-world-store.c:229` | as is, `store` | a query without a name answers with an installed package and its twin |
| `HandlersSeeTheChange` | `rc-world-store.c:799`, `:932`, `:997` | as is, `store` | a handler of `changed_packages` that asks has the new number and the old packages |
| `FreshInAllKinds` | `rc-world.h:125` | as is, `multi` | the same in a multi world; and no lock touches `seq_no_locks` |
| `NewestIsKept`, `FirstIsFavoured` | `rc-world-store.c:724`, `:773` | as is, `channel store` | a channel holds several versions, and the second of equals is kept |
| `ProviderIsShown` | `rc-world-store.c:336` | as is, `store` | an installed package hides its twin where it is no answer |
| `LocksAreShown` | `rc-world-store.c:192` | as is, `channel store` | locks added by `rc_world_add_lock` are never found |
| `ConstraintFinds` | `rc-world.c:835` | as is, `questions` | a dependency has no arch, so packages of an arch are not found |
| `AskedIsSeen` | `rc-subscription.c:336`, `:373` | as is, `subs`, `subs imported` | an emptied list is read again; only one of two entries is removed |
| `NeverAborts` | `rc-package-dep.c:100` | a small `RefBits` | the references of a dependency overflow 20 bits |
| `PreIsKept` | `rc-debman-general.c:213` | `Whats` with a version | a versioned pre-dependency becomes an ordinary one |
| `RpmAntisymmetric` | `rc-rpmman.c:2724` | `Chars` with `+` alone | "1+" and "1++" are each older than the other |
| `AlternativesKeepTheirMeaning` | `rc-dep-or.c:255` | the capabilities of rpm | an alternative without an epoch is read back with epoch 0 |
| `DebAgrees` | `rc-debman.c:3075` | `IntBits = 8`, long numbers | the difference of two longs is returned as an int |
| `NothingElseIsFreed` | `rc-xml.c:534` | as is, `nesting` | alternatives within alternatives free the list of the section, a part of the context |
| `ReadersAgreeInAll` | `rc-xml.c:314`, `:988` | as is, `channel` | one reader takes version and size from the newest update, the other the element's own |
| `CutFilesAreRead` | `rc-extract-packages.c:142`, `:185` | as is, `debian file` | a file that ends within the value of a field is read through a null pointer |
| `EveryBlockIsOne` | `rc-extract-packages.c:128` | `Lines` with one that has no colon, and an end | a line without a colon joins two blocks |
| `FoldedAreFreed` | `rc-query.c:469` | groups without a key | the end of a query stops at a part without a key |
| `NotReached` | `rc-query.c:129` | an importance that contains a word | `g_assert_not_reached` |
| `FollowsTheRules` | `rc-resolver-context.c:1045` | as is, `infos` | the package an important info is about does not spread importance |
| `ErrorsAreReported` | `rc-resolver-info.c:96` | as is, `merging infos` | an error with the text of an earlier info that is none is merged into that |
| `RequirementsAreReported` | `rc-resolver-info.c:89` | as is, `merging infos` | the second missing requirement of a package is not reported |

Statements of the source that were checked and hold: that a queue that is
neither invalid nor empty is down to branches (`rc-resolver.c:485`,
`OnlyBranchesAreSplit`), that the first of equal solutions wins
(`rc-resolver.c:462`, `BestIsFirstOfBest`), that the list of subworlds must be
copied for the cut over (`rc-world-multi.c:227`, the mutant of
`ImplementsAtomicRefresh`), and that segments of versions are compared as
`rc-rpmman.c:2666` and below describe (`VersionsAreOrdered`).

## 5. Proofs

`Resolver_proofs` proves seven theorems about the resolver for every universe of
packages, all worlds and all requests; it has the lemmas about `ResolverContext`
and `QueueItem` that they rest on, and those about lists. The assumptions
are those named in the modules: `UniverseAssumption` (attributes have their
types), `MaxIntAssumption` (channel priorities are below `G_MAXINT`),
`ModulusAssumption` (sizes wrap at a positive number) and `RequestAssumption`.

* `TypeCorrect`: `Spec => []TypeOK`. `TypeOK` is inductive. The work lies in the
  operators: each handler maps a context and an item of the right type to an
  outcome of the right type. The lists that the world hands out are sorted
  sets; they are defined by positions (`Listed`) instead of by recursion so
  that it can be proved that they are sequences over the set.
* `DecisionsAreKept`: a package that is marked to be installed, to be
  uninstalled or obsoleted keeps that mark while its queue is processed. Each
  marking operator is shown to keep decisions; the one delicate case is the
  trial removal in an unlink, which only touches an installed package and puts
  it back. Branching starts a new queue, for which the marks are inherited
  through the chain.
* `OnlyBranchesRemain`: a queue that is split is down to nothing but branches.
  The invariant (`PassInv`) is that a pass that has got nowhere so far has only
  passed on branches. It holds because every outcome of an item that is not a
  branch counts as progress (`OnlyBranchesGetNowhere`), and because a pass that
  gets somewhere and leaves items is not the last.
* `BestIsOffered`: the best context is a solution, no other is better, and it is
  better than the earlier ones. It needs that `Better` is a strict weak order
  on contexts of the right type (`BetterIsOrder`), hence the type invariant, and
  that the order does not depend on anything that moves (`BetterUnmoved`).
* `RequestsHonoured` and `SolutionsGoTogether`: every solution honours what was
  asked for, and in no solution are there packages that conflict, or versions
  that exclude each other, beyond what was there before.

* `RequirementsMet`: everything that is present in a solution has what it requires,
  with the exceptions that `RequirementsAreMet` names, if packages of one name and
  version provide the same (`SpecsProvideAlike`).

`RequestsHonoured` and `SolutionsGoTogether` have one inductive invariant, `GoodInv`: every valid context, with
the items still to come, is good. A solution has no items left, so what is good
of it is what is promised. Before that each promise is *kept or owed*: an item
in the queue will keep it. `Good` has these parts.

* Only a verification marks softly, and a locked package keeps its mark unless
  the request is to take it (`StatusInv`); and each item that is owed fits the
  context (`ItemInv`): whoever is said to have lost a requirement was there, what
  is unlinked is installed, an upgrade names another version that was there.
* What conflicts with a package that is to be installed goes, or its removal is
  owed, or the `ConflictItem` that will find it (`ConflictsInv`).
* If two versions of a package are to be installed and none was there, then they
  upgrade one that a verification had marked, and that one goes
  (`ParallelInv`).
* A package that is asked for is marked, was ruled out before, or its install is
  owed for nobody else's sake (`InstallsInv`: `neededBy` is empty, so that
  nothing makes it superfluous); one that is to go goes, or its removal is owed
  (`RemovesInv`).

Each handler gives an `Effect`: which marks it sets, which items it adds, and
that it drops no item but itself (`InstallEffect`, `UninstallEffect`,
`SimpleEffect`); `ItemKeepsGood` says that an effect keeps a context good, and is
used for every kind of item. A branch owes none of the promises
(`GoodWithoutBranches`), so that the pass may drop super-branches and a split
may take one alternative of each; and the child of a context has the marks of its
parent (`CopyIsGood`), so that a split starts from good contexts. TLC checked
`GoodInv` on the instances of `MCResolver` before it was proved. In doing so it
showed that both properties were too strong as first written: what a verification
installs may be taken back later, which they now say.

`RequirementsMet` has an invariant of the same kind on top of that, `MetInv`: every
context is *met* with the items still to come (`Met`). For each package that is
present and each dependency it must have, the dependency is met in the context, one
of the exceptions applies or will when the items are processed, the queue is bound
to fail (`Hopeless`: an item removes what is to be installed), or an item *answers*
the requirement (`Owing`). What answers it is the `RequireItem` that asks for it, an
install of something that helps, the removal of the package, or a branch of which
every alternative answers it; a branch with removals among its alternatives answers
only when a provider was lost, and an install that is needed by other packages too
(`neededBy`) answers only if those had the same choice (`ChosenFor`), for it is
dropped when they go. Further `Met` says that an installed package is only marked softly
to replace an older version (`SoftInv`), and of items what the handlers rely on
(`ReqItem`).

`ReqEffect` is to `Met` what `Effect` is to `Good`: it states what one handler does
for requirements, `SimpleReqEffect` proves it of each, and `EffectKeepsMet` that it
is enough. Two steps differ from those for `Good`, in which branches owe nothing. A
pass drops the branches that contain another one: what the larger one answers the
smaller one does, unless the package stays beside another version of it, which is
excused (`ContainedAnswers`, `MetWithoutLarger`). That rests on containment being
transitive, so that for each branch dropped one that it contains is left
(`SmallerBranchStays`), and on `SpecsProvideAlike`, for branches are compared
by names and versions (`rc_queue_item_branch_contains`). The hypothesis is the
theorem's own and not an assumption of the model, because the code does not ensure
it: where a versioned dependency is tied to a channel (`rc-package-dep.c:546`) and
the same version comes from two channels, the theorem says nothing. The universe of
`MCResolver` has one version from two channels and satisfies it (`SpecsAssumption`).
A split replaces a branch by each of its alternatives, which answer what it did, and
the rest by copies (`CopiesServe`). TLC checked `MetInv` on the instances of
`MCResolver`, and on random worlds, before it was proved; most of the exceptions of
`RequirementsAreMet` were found that way.

`MCWorlds_proofs` proves four theorems about the refresh of a multi world
(`WorldRefresh`), for all services, lists, bounds and choices of `Immediate`.

* `PendingsAreTrue`: a pending that a client has got runs exactly as long as its
  refresh. The property is not inductive: one must add that a refresh that goes
  on is the last one begun, that its pending is the one the multi world holds,
  and that within the loop nobody has got it yet, for the cut over after the
  loop drops a pending without finishing it (`PendingsInv`).
* `RefreshIsAtomic`: the step refinement of `AtomicRefresh`: initial states map
  to initial states and every step to a step or a stutter; `AtomicRefresh` states
  no fairness.
* `LoadedWorldsAreShown`: nobody sees a world before it has been refreshed.
* `RefreshTypeCorrect`: the types of the variables.

Those rest on `WorldsInv`: the services are distinct and known; what is shown is
older than the refresh that goes on; a duplicate has the service of its original,
and who is being refreshed has a duplicate that waits for it; a subworld that was
passed in the loop and can be refreshed has its duplicate. The list after the cut
over is stated by positions (`SwitchedOver`), so that these carry over.

Two more of its theorems are invariants of the run `worlds`, for all packages,
URLs, spellings and bounds.

* `WorldsShowWhatIsSaved`: a synthetic world and a directory show what is in
  their files. For the synthetic world one must add that while it writes nothing
  vouches for the file and that what it writes is what the transaction was to
  lead to (`SyntheticInv`). For a directory the times must be put in order: the
  time noted is no later than that looked at, that no later than the last change,
  and two changes that the directory tells apart are not in the same second
  (`LocalInv`; `ManyPerSecond`, which would refute it, is false in the instance).
* `DerivedServicesAloneShare`: of two services that share the URL, the id, or the
  name but for case, the one mounted first is of a derived type (`OnlyDerivedShare`);
  so a type that derives from no other shares nothing. What is mounted later than a
  service of the type that is looked up was checked against it, also if others went
  in between, so that the invariant is about pairs (`AllDiffer`). A name is numbered
  until no service has it; that names with different numbers differ is what needs an
  argument (`NumbersTellApart`), and that the search ends is none of its business.

`SystemWorld_proofs`, `Debman_proofs` and `RpmTransact_proofs` prove what holds of
the back ends for all packages, worlds, bounds, clients and failures.
`MCPackman_proofs` carries that over to the instances of `MCPackman`, for all
values of its constants, and proves seven of the eight properties of the run
`package_managers`.

* `NoChangeGoesUnseen`, `AlwaysLockedOrWatched` (`ChangesAreSeen`,
  `LockedOrWatched`). A world that differs from the database will notice at the
  next check, or the change was missed in a way that has a name, or the world is
  still in the list that the thread works through: `LossInv` with `Coming`. The
  lists hold a world once (`StateInv`), for who disconnects is taken out once.
  That the lock holds rests on who opens the database: a client, or a job that
  will close it, never both (`HandleInv`). A world by itself misses nothing,
  because when the database is about to be closed the world shows it as it is
  (`AloneInv`).
* `FrontIsCountingLock`: the step refinement of `CountingLock`. There is at most
  one call that has not returned, for a handler only queries, and depending on
  which one it is the count and the lock of the back end differ in one way
  (`FrontInv`).
* `LockIsAlwaysPassedOn`, `OnlyWhatWasAskedIsDone`, `FailuresAreAlwaysReported`. Who
  works with the lock has it, and it was taken by the transaction, which gives it
  back, or before by a client (`LockInv`). Phase by phase, what is marked, unpacked
  and purged so far is what the request needs then (`PhaseInv`), unless another
  program interfered. All that is marked for removal was asked for by some
  transaction, not necessarily by this one, since marks outlive a crash
  (`MarksInv`). The worst error that is kept is the worst of the signals
  (`WorstInv`).
* `RpmAlwaysDoesWhatWasAsked` (`RpmDoesWhatWasAsked`). If no transaction set outlives
  its transaction (`Fresh`), the set and what is still to be put into it are what
  was asked for (`SetInv`), and what rpm has installed and removed stands, though each
  package that is installed may remove others: requests have one package of a
  name, a check has ruled out that the packages obsolete each other, and what a
  package obsoletes is not erased but left to rpm (`RunInv`). Of what was to be
  removed only that may stay which is obsoleted by packages that are only installed
  (`LeftToNobody`). That the database
  is given back needs none of this (`DatabaseInv`) and holds of rpm 4.1 under a
  lock too, where `NothingTwice` fails (`rpm_locked`).

`MCTransaction_proofs` proves that the journal is true (`JournalIsTrue`): what an
entry of the rollback information says happened in some transaction, a package of
which it gives the old version and the new one (`EntriesHappened`); what the saved
directory owes a transaction is there, unless a kill came between the two or
another transaction had the same second (`CopiesAreThere`); and tracking is switched on again after a transaction
(`EnabledAgain`). It holds for all packages, versions, files, numbers of
transactions and failures, with a kill between any two steps. The property says
nothing of the document in memory nor of current-transaction, on which it rests;
`TransactionInv` does, stage by stage.

* `DocInv`: each entry of the document that is to be written has happened or is due
  in the stages left, and from the first stage that moved anything the transaction
  is the last one remembered. That the synthetic stage may still rely on what was
  installed needs that the system stage touches system packages only.
* `CopyInv`: while current-transaction is filled and not renamed it has a copy of
  every file that the transaction under way replaces, and the directories of
  earlier transactions have theirs. The last transaction is exempt just before the
  rename, at which the copies change their place.
* `PlainInv`: the files of synthetic packages are as delivered, so that none of
  them needs a copy, though only the system stage looks for changed files.
* `EnabledInv`, `TypesInv`: when tracking is on, and the types, of the request and
  of what is remembered too.

`MCStore_proofs` proves four of the six properties of the run `stores`, for all
packages, dependencies, worlds, bounds and pendings, and for the two channels.

* `StoreIsAlwaysWhole` (`StoreIsWhole`). Tables are compared with the packages by how
  often something is in them (`Times`): `Kept` leaves that as it is for what is kept
  and makes it nothing for the rest (`KeptTimes`), which holds since the places of
  what is kept are in bijection with those of the whole (`KeptPlaces`). With that
  `IndexesAgree` is inductive together with the types and the sequence number
  (`StoreInv`). A package that is added replaces the only one that is alike, unless an
  installed one of its spec keeps that out of sight (`TwinsAreReplaced`, an action
  property); that no channel has twins (`NoTwins`) follows for a store without
  installed packages (`TwinFree`), and for that only. Of queries by a name and by a
  dependency the property says that they do not answer with a package and its installed
  twin; it says nothing of those without a name, which do.
* `ClientsAlwaysSee` (`ClientsSeeWhatIsThere`). Whoever has asked on its own and has the
  present number has the present packages, for what is shown or goes raises the number,
  unless the channel is hidden; a handler of `changed_packages` is too early, and the
  numbers of locks are excepted, since nothing raises them; in a multi world what a client remembers is never of a higher number than
  the present one (`MultiInv`). Of a walk the invariant says where it is (`WalkInv`):
  over a copy, that each world that stayed was visited or is still to come, not both
  (`CopyIsLeft`); over the list itself, that of the worlds that stayed exactly those up
  to the present place were visited (`VisitedSoFar`), wherever worlds are added and
  taken out.
* `PendingsAreAlwaysCleaned` (`PendingsAreCleaned`). One must add that a pending nobody
  has made yet has not begun, and that none began later than now, without which the
  estimate might rise (`PendInv`).
* `StatusIsAlwaysKept` (`StatusIsKept`). That the file tells what the list does when there
  is nothing to save goes from each function to the next that it calls (`SaveKeeps`,
  `LoadKeeps`, `GetKeeps`, `SetKeeps`), also with old entries. Without them each
  channel has one entry at most, since the first that matches is the only one
  (`OnlyNew`), and a status that was given and saved is told by the file and, when it is
  loaded, by the list (`Keeps`): a list that is empty may have been emptied by a change
  that could not be saved, and is then read again. When all saves succeed nothing is
  left to save, and the status asked for is the one kept (`SubsInv`).

Instances of one module with different constants are different to the prover, so
`MCPackman_proofs` shows of each that its steps and promises are those of the
module that the theorems are about (`DebmanSteps`, `RpmPromises` and the like).

Only model-checked: all that is temporal under fairness (`Termination`,
`QuietlyEnds`, `PicksUp`, `GetsFresh`, `TransactionsEnd`), which is beyond the
prover; `FiguresDecide`, since sums over sets are folds, about which facts need
induction over data; `FilesAreRead`, since a file is read as folds over its
lines, which needs the same; `NoGratuitousRemovals`, whose invariant would have to keep for
every removal to come the reason it was queued for, while reasons come and go;
`LeadsBack`, since what a rollback asks for is a fold over the journal, while what
the journal holds is not (`JournalIsTrue` is proved); `EditsAreRestored`, which the
code violates; `DumpsReadBack`, since a dump is what `SelectSeq` leaves of a list;
`UpgradesAgree`, since the best of
a list is a fold over it, and `DepsAreShared`, since a field of dependencies is released
by folds; and the modules with recursive definitions
(`Versions`, `XmlTree`, `XmlSax`, `PackageFiles`), for which the prover has no
arithmetic.

## 6. Not modelled, and why

* Distribution detection and utilities, checksums and signatures: probes of
  files, and computations over bytes or by external programs, without state.
* Language bindings, tools and dependency tests: wrappers and drivers.
* Queries of files by the back ends, reading of package files and headers, and
  the binding of librpm: calls into libraries, whose answers enter as sets.
* The progress of a refresh (`rc-world-multi.c:339`): a sum of floating-point
  parts, which for nine subworlds exceeds 100.
* `guess_package_channel`, `rc_world_dup`, `add_packages_from_slist`, the
  freeze count of a store: they choose or copy, or put signals off.
* Matches (`rc-package-match.c`): a test of fields in a row; locks are values.
  `rc_package_match_set_channel` frees the old id twice (line 79), but memory
  of strings is not modelled.
* A read error of the status file (`rc-debman.c:782`) ends the reading as its
  end does; `Debman` reads it in one step.
* `importance_match` (`rc-query-packages.c:218`) takes the first update of a
  package without asking whether there is one; packages of the models have one.
* A queue is pruned by a churn that later items can lower (`rc-resolver.c:471`),
  so that a better solution may be lost: the search promises no optimum over
  what it prunes. A solution that only removes has the priority `G_MAXINT` and
  beats all that install (`rc-resolver-context.c:100`): nothing says otherwise.
