-------------------------------- MODULE MCStore --------------------------------
(***************************************************************************)
(* Instances of the modules about what worlds keep and clients ask of      *)
(* them: the store, the questions to a whole world, subscriptions,         *)
(* pendings, dependencies that are shared, and multi worlds.  One part     *)
(* runs in each behaviour, and the others stay as they are at first.       *)
(***************************************************************************)
EXTENDS WorldStore, Functions, TLC

CONSTANTS
  ABSENT, MALFORMED, UNKNOWN,           \* in place of what a file or a client has
  MaxId, CleanupTime, CleanupDelay,     \* pendings: those that are made, and their clean-up
  Percents, Sizes, MaxClock,            \* what they report, and until when
  MultiWorld, MultiKind, MaxChanges,    \* worlds in a multi world, that change
  MaxTouches,
  WalkWorld, MaxWalkTouches,            \* worlds in a multi world that is walked over
  Parts                                 \* what runs

VARIABLES
  part,
  held, subscribed, locked, number, told,                         \* WorldQueries
  file, oldFile, list, changed, tried, now, asked, kept,          \* Subscription
  pendings, table, nextId, lastCleanup, clock,                    \* Pending
  store, lists, read,                                             \* DepCache
  subworlds, content, numbers, cache, walk                        \* MultiQueries

-----------------------------------------------------------------------------
\* The store: a package that is installed, the same one in a channel, twice, a newer
\* version, one of another arch and one in a hidden channel.
MCPackage  == {"i1", "c1", "c1b", "c2", "cx", "h1"}
MCChannel  == {"system", "main", "hidden"}
MCSystem   == {"system"}
MCHidden   == {"hidden"}

Spec1(v, a) == [name |-> "a", version |-> v, arch |-> a]

MCSpecOf ==
  [p \in MCPackage |-> CASE p \in {"i1", "c1", "c1b"} -> Spec1(1, "i386")
                           [] p = "c2" -> Spec1(2, "i386")
                           [] p = "cx" -> Spec1(1, "ppc")
                           [] p = "h1" -> [name |-> "h", version |-> 1, arch |-> "noarch"]]

MCChannelOf ==
  [p \in MCPackage |-> CASE p = "i1" -> "system" [] p = "h1" -> "hidden" [] OTHER -> "main"]

MCScore == [a \in {"i386", "ppc", "noarch"} |->
              CASE a = "ppc" -> -1 [] a = "i386" -> 0 [] a = "noarch" -> 1]

\* a: the package itself; r, m: a requirement of any channel and of the main one.
MCDep        == {"a", "r", "m"}
MCDepName    == [d \in MCDep |-> "a"]
MCDepChannel == [d \in MCDep |-> IF d = "m" THEN "main" ELSE "any"]
MCMeets      == {"r", "m", "a"} \X {"a"}

MCDepsOf ==
  [k \in {"provides", "requires", "children", "conflicts", "recommends"} |->
     [p \in MCPackage |->
        CASE k = "provides" /\ p # "h1" -> <<"a">>
          [] k = "requires" /\ p = "h1" -> <<"r">>
          [] k = "recommends" /\ p \in {"c2", "h1"} -> <<"r">>
          [] k = "children" /\ p = "c2" -> <<"a">>
          [] k = "conflicts" /\ p \in {"i1", "c1", "c1b"} -> <<"a", "m">>
          [] OTHER -> <<>>]]

-----------------------------------------------------------------------------
\* Questions: two installed versions of one package, and versions of it in two channels,
\* one pair of them of the same spec, in lists of up to four, i1 not without i2.
Asked == {"i1", "i2", "c2", "c3", "d3", "d4"}

AskedSpecs ==
  [p \in Asked |-> [name |-> "a", arch |-> "i386",
                    version |-> CASE p = "i1" -> 1 [] p \in {"i2", "c2"} -> 2
                                  [] p \in {"c3", "d3"} -> 3 [] p = "d4" -> 4]]

AskedChannels ==
  [p \in Asked |-> CASE p \in {"i1", "i2"} -> "system" [] p \in {"c2", "c3"} -> "c"
                     [] OTHER -> "d"]

SomeLists ==
  UNION {{s \in [1..n -> Asked] : IsInjective(s) /\ ("i1" \in Range(s) => "i2" \in Range(s))}
           : n \in 0..4}

Questions == INSTANCE WorldQueries WITH
  Package <- Asked, Channel <- {"system", "c", "d"}, SpecOf <- AskedSpecs,
  ChannelOf <- AskedChannels,
  History <- [p \in Asked |-> IF p = "c3" THEN {AskedSpecs["i1"]} ELSE {}],
  System <- {"system"}, Deaf <- {}, Provider <- {"i2", "c2", "c3", "d3"},
  Lists <- SomeLists, NOARCH <- "noarch", NONE <- "none", MaxChanges <- 2,
  packages <- held, seqNo <- number, seen <- told

\* A channel whose world has no subscriptions.
DeafQuestions == INSTANCE WorldQueries WITH
  Package <- Asked, Channel <- {"system", "c", "d"}, SpecOf <- AskedSpecs,
  ChannelOf <- AskedChannels, History <- [p \in Asked |-> {}],
  System <- {"system"}, Deaf <- {"d"}, Provider <- {}, Lists <- {<<>>},
  NOARCH <- "noarch", NONE <- "none", MaxChanges <- 4,
  packages <- held, seqNo <- number, seen <- told

-----------------------------------------------------------------------------
\* Subscriptions: a new file or none, with saves that may fail and without; and an old file
\* beside it, of two channels with legacy ids that end in o1, one of them also in o2.
Entry(c) == [id |-> c, old |-> FALSE, seen |-> 0]

NewFiles ==
  {ABSENT, MALFORMED, <<>>, <<Entry("c1")>>, <<Entry("c2")>>, <<Entry("c1"), Entry("c2")>>}

Subs == INSTANCE Subscription WITH
  Channels <- {"c1", "c2"}, OldIds <- {"o1", "o2"},
  Tails <- [c \in {"c1", "c2"} |-> IF c = "c1" THEN {"o1"} ELSE {"o1", "o2"}],
  Files <- NewFiles,
  OldFiles <- {ABSENT, MALFORMED, <<"o1">>, <<"o1", "o2">>}, Expiration <- 1, MaxTime <- 3

-----------------------------------------------------------------------------
\* Pendings, with times on either side of those after which they are cleaned up.
MCSizes == {<<0, 0>>}

Pendings == INSTANCE Pending WITH MaxTime <- MaxClock, now <- clock

\* Two clients and the field "n1, n1 | n2".
Plain(n) == [name |-> n, what |-> "any"]

Shared == INSTANCE DepCache WITH
  Names <- {"n1", "n2"}, Whats <- {}, NONE <- "any", Clients <- {"k1", "k2"},
  Cells <- 1..4, RefBits <- 20,
  Fields <- {<<<<Plain("n1")>>, <<Plain("n1"), Plain("n2")>>>>}

\* Bounds on lists and on what is forgotten or never released.
Bounded ==
  /\ \A k \in {"k1", "k2"} : Len(lists[k]) <= 2
  /\ Len(store.leaked) <= 2
  /\ \A n \in DOMAIN store.ors : store.ors[n].ref <= 2

\* Numbers of worlds that change, and walks.
Multi == INSTANCE MultiQueries WITH
  World <- MultiWorld, Kind <- MultiKind, Early <- {"packages"}, Silent <- {"locks"},
  seqNo <- numbers
Walks == INSTANCE MultiQueries WITH
  World <- WalkWorld, Kind <- {"packages"}, Early <- {}, Silent <- {},
  MaxChanges <- 0, MaxTouches <- MaxWalkTouches, seqNo <- numbers

ASSUME PartsAssumption ==
       /\ StoreAssumption
       /\ Questions!QueriesAssumption /\ DeafQuestions!QueriesAssumption
       /\ Subs!SubscriptionAssumption
       /\ Pendings!PendingAssumption /\ Shared!DepCacheAssumption
       /\ Multi!MultiAssumption /\ Walks!MultiAssumption

-----------------------------------------------------------------------------
askVars    == <<held, subscribed, locked, number, told>>
subsVars   == <<file, oldFile, list, changed, tried, now, asked, kept>>
pendVars   == <<pendings, table, nextId, lastCleanup, clock>>
depVars    == <<store, lists, read>>
multiVars  == <<subworlds, content, numbers, cache, walk>>

AllInit ==
  /\ part \in Parts
  /\ Init /\ Pendings!Init /\ Shared!Init
  /\ IF part = "questions" THEN Questions!Init ELSE DeafQuestions!Init
  /\ Subs!Init
  /\ IF part = "subs imported" THEN file \in {ABSENT, <<Entry("c2")>>} ELSE oldFile = ABSENT
  /\ IF part = "walks" THEN Walks!Init ELSE Multi!Init
  /\ part \in {"subs", "subs saved", "subs imported"} \/ file = ABSENT

\* A store without locks, and one of packages that are not installed, with locks while it
\* is empty (no operation on packages looks at them); bound: one change less for that.
AllNext ==
  \/ /\ \/ part = "store" /\ Next /\ locks' = <<>> /\ lockStore' = <<>>
        \/ /\ part = "channel store" /\ Next
           /\ seqNo' < MaxSequence /\ \A p \in Range(packages') : ~IsInstalled(p)
           /\ packages' = <<>> \/ locks' \o lockStore' = <<>>
     /\ UNCHANGED <<part, askVars, subsVars, pendVars, depVars, multiVars>>
  \/ /\ \/ part = "questions" /\ Questions!Next /\ locked' \subseteq Range(held)
        \/ part = "deaf questions" /\ DeafQuestions!Next
     /\ UNCHANGED <<part, vars, subsVars, pendVars, depVars, multiVars>>
  \/ /\ \/ part \in {"subs", "subs imported"} /\ Subs!Next
        \/ part = "subs saved" /\ Subs!NextWith({TRUE})
     /\ UNCHANGED <<part, vars, askVars, pendVars, depVars, multiVars>>
  \/ /\ part = "pendings" /\ Pendings!Next
     /\ UNCHANGED <<part, vars, askVars, subsVars, depVars, multiVars>>
  \/ /\ part = "deps" /\ Shared!Next /\ Bounded'
     /\ UNCHANGED <<part, vars, askVars, subsVars, pendVars, multiVars>>
  \/ /\ \/ part = "multi" /\ Multi!Next
        \/ part = "walks" /\ Walks!Next
     /\ UNCHANGED <<part, vars, askVars, subsVars, pendVars, depVars>>

AllSpec ==
  AllInit /\ [][AllNext]_<<part, vars, askVars, subsVars, pendVars, depVars, multiVars>>

-----------------------------------------------------------------------------
\* The tables of the store list what the packages in it declare and nothing of one that is
\* gone; a package that is added replaces the one like it in its channel, unless an installed
\* one of its spec hides that one, so that where nothing is installed a channel never has two
\* packages of one spec; and no query by a name or a dependency answers with a package and
\* with an installed one of its spec - queries without a name do (rc_world_store_add_package
\* and its counterparts, rc_world_store_foreach_package_fn and its kind).
StoreIsWhole ==
  /\ [](part \in {"store", "channel store"} =>
          TypeOK /\ IndexesAgree /\ RemovedAreGone /\ TwinsAreSkipped)
  /\ [](part = "channel store" => NoTwins)
  /\ TwinsAreReplaced

\* Who has the present sequence number has seen what there is now: of a store, if it looked on
\* its own and not from a handler of changed_packages, which runs before the tables change; of
\* subscriptions; and of a multi world, of all but its locks, whose changes touch no number.
\* And a walk over a multi world comes to all that stay
\* (rc_world_touch_package_sequence_number, rc_world_multi_foreach_subworld).
ClientsSeeWhatIsThere ==
  /\ part \in {"store", "channel store"} => NumberTellsPackages
  /\ part = "deaf questions" => DeafQuestions!NumberTellsSubscriptions
  /\ part = "multi" => Multi!TypeOK /\ Multi!FreshWhileUnchanged
  /\ part = "walks" => Walks!StayersAreVisited

\* The best upgrade is the newest, the upgrades of the whole system agree with it, and who
\* is told to be the only one to provide something is (rc_world_get_best_upgrade,
\* rc_world_foreach_system_upgrade, rc_world_get_single_provider).
UpgradesAgree ==
  part = "questions" =>
    /\ Questions!TypeOK /\ Questions!BestIsTheNewest
    /\ Questions!OffersAgree /\ Questions!OnlyOneProvides

\* A channel has the status it was given, at once and, if it could be saved, for the next
\* process too; and the file tells what the list does (rc_subscription_set_status,
\* rc_subscription_save, rc_subscription_load).
StatusIsKept ==
  /\ part = "subs" => Subs!KeptIsSeen
  /\ part = "subs saved" => Subs!AskedIsSeen
  /\ part = "subs" => Subs!TypeOK
  /\ part \in {"subs", "subs imported"} => Subs!SavedUnlessChanged

\* A pending is only cleaned up when it has ended and nobody has asked for it for long, no
\* old one outlives a clean-up, and what remains of one becomes less between two reports
\* (rc_pending_cleanup, rc_pending_get_remaining_secs).
PendingsAreCleaned ==
  /\ [](Pendings!TypeOK /\ Pendings!NothingOldIsLeft)
  /\ Pendings!CleanedWhenForgotten
  /\ Pendings!EstimateFalls

\* A dependency is shared by all who have the same, found again as long as somebody has it,
\* and has as many references as there are holders (rc_package_dep_new,
\* rc_package_dep_unref).
DepsAreShared ==
  part = "deps" => /\ Shared!TypeOK /\ Shared!SameIsShared
                   /\ Shared!ListedByName /\ Shared!RefsAreHolders

=============================================================================
