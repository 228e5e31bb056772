------------------------------- MODULE MCWorlds -------------------------------
(***************************************************************************)
(* Instances of the modules about multi worlds and the kinds of worlds     *)
(* that are mounted in them.  The modules have nothing in common that      *)
(* changes, so one of them runs in each behaviour, "part", and the others  *)
(* stay as they are at first.                                              *)
(***************************************************************************)
EXTENDS WorldRefresh

CONSTANTS system, red, blue, plain,     \* services
          MountUrls, LowerCase,         \* URLs, and their parts in lower case
          MaxMounted,                   \* bound: how many services are mounted at a time
          SyntheticPackage,             \* packages of the synthetic worlds
          LocalPackage, MaxClock,       \* packages in directories; bound: the last second
          Parts                         \* what runs

VARIABLES
  part,
  handlers, services, said,                 \* ServiceMounts
  file, synthetic, step, agree, did,        \* SyntheticWorld
  clock, dir, local, pc, seen,              \* LocalDirWorld
  undumped, last, loads                     \* UndumpWorld

-----------------------------------------------------------------------------
\* Refreshes: a system world, whose refresh has ended when the function returns, two
\* worlds that are refreshed in the background and one that cannot be refreshed.
MCService     == {system, red, blue, plain}
MCRefreshable == {system, red, blue}
MCImmediate   == {system}

\* The multi world is empty at first, or has been given some of the worlds, with
\* each kind of world in front of and behind each other kind.
MCMounted ==
  {<<>>, <<system>>, <<plain, system>>, <<system, plain>>,
   <<red, blue>>, <<plain, red>>, <<red, plain>>, <<system, red, blue>>,
   <<red, system, plain>>, <<plain, red, blue, system>>}

MCChanges == {"mount", "unmount"}

\* Nothing is mounted or removed while a refresh goes on.
Quiet == INSTANCE WorldRefresh WITH Changes <- {}, MaxRefreshes <- 2

-----------------------------------------------------------------------------
\* Mounting: URLs that differ in case, in the path and in the name they give, for services
\* of the base type and of one derived from it, as all of the library's are.
Url(scheme, path, name) == [scheme |-> scheme, path |-> path, name |-> name]

MCUrls ==
  { Url("file", "a", "n"), Url("file", "A", "n"), Url("file", "b", "n"), Url("file", "b", "b"),
    Url("other", "c", "N"), Url("", "a", "n") }

MCLowerCase ==
  [t \in {"file", "other", "a", "A", "b", "c", "n", "N", ""} |->
     CASE t = "A" -> "a" [] t = "N" -> "n" [] OTHER -> t]

Mounts == INSTANCE ServiceMounts WITH
  Urls <- MountUrls, Types <- {"service", "derived"}, SERVICE <- "service", Lower <- LowerCase,
  subworlds <- services

-----------------------------------------------------------------------------
\* Synthetic packages, in a multi world that is refreshed and in one that is not.
Synthetic == INSTANCE SyntheticWorld WITH
  Package <- SyntheticPackage, InMulti <- TRUE, world <- synthetic, pc <- step
Alone == INSTANCE SyntheticWorld WITH
  Package <- SyntheticPackage, InMulti <- FALSE, world <- synthetic, pc <- step

\* Packages in a directory, which is there all the time, or is removed and made again;
\* seconds enough for a change before, in and after a reading.
LocalDir == INSTANCE LocalDirWorld WITH
  Package <- LocalPackage, MayVanish <- FALSE, ManyPerSecond <- FALSE, world <- local
Remade == INSTANCE LocalDirWorld WITH
  Package <- LocalPackage, MayVanish <- TRUE, ManyPerSecond <- FALSE, world <- local

-----------------------------------------------------------------------------
\* Dumps with and without packages, locks, subscriptions and priorities: many that are
\* loaded once, with a second channel or not, and two that are loaded one over the other.
Node(id, subscribed, base, unsubd, packages) ==
  [id |-> id, subscribed |-> subscribed, base |-> base, unsubd |-> unsubd, packages |-> packages]

Nodes ==
  {Node("a", s, b, u, p) : s \in BOOLEAN, b \in {0, 1, 7}, u \in {0, 5}, p \in {{}, {1, 2}}}

Dump(locks, installed, channels) == [locks |-> locks, system |-> installed, channels |-> channels]

ManyDumps ==
  {Dump(<<1>>, {3}, <<n>>) : n \in Nodes}
    \cup {Dump(<<1, 2>>, {}, <<n, Node("b", TRUE, 3, 0, {1})>>) : n \in Nodes}

FewDumps ==
  { Dump(<<1>>, {3}, <<Node("a", FALSE, 0, 0, {1, 2})>>),
    Dump(<<>>, {3}, <<Node("a", TRUE, 7, 5, {2}), Node("b", FALSE, 3, 0, {})>>) }

Undump == INSTANCE UndumpWorld WITH
  Dumps <- ManyDumps, TogglesOnly <- TRUE, DefaultPriority <- 1600, MaxLoads <- 1,
  MaxSubscribed <- 3, world <- undumped
UndumpAgain == INSTANCE UndumpWorld WITH
  Dumps <- FewDumps, TogglesOnly <- TRUE, DefaultPriority <- 1600, MaxLoads <- 3,
  MaxSubscribed <- 3, world <- undumped

ASSUME WorldsAssumption ==
  /\ Synthetic!SyntheticAssumption /\ Alone!SyntheticAssumption
  /\ LocalDir!LocalDirAssumption /\ Remade!LocalDirAssumption
  /\ Undump!UndumpAssumption /\ UndumpAgain!UndumpAssumption

-----------------------------------------------------------------------------
mountVars     == <<handlers, services, said>>
syntheticVars == <<file, synthetic, step, agree, did>>
dirVars       == <<clock, dir, local, pc, seen>>
undumpVars    == <<undumped, last, loads>>

AllInit ==
  /\ part \in Parts
  /\ Init /\ Mounts!Init /\ Synthetic!Init /\ LocalDir!Init /\ Undump!Init
  /\ part \in {"refresh", "quiet refresh"} \/ subworlds = <<>>
  /\ part \in {"synthetic", "synthetic alone"} \/ file = Synthetic!Absent
  /\ part \in {"local dir", "local dir remade"} \/ dir.files = {}

AllNext ==
  \/ /\ \/ part = "refresh" /\ Next
        \/ part = "quiet refresh" /\ Quiet!Next
     /\ UNCHANGED <<part, mountVars, syntheticVars, dirVars, undumpVars>>
  \/ /\ part = "mounts" /\ Mounts!Next
     /\ UNCHANGED <<part, vars, syntheticVars, dirVars, undumpVars>>
  \/ /\ \/ part = "synthetic" /\ Synthetic!Next
        \/ part = "synthetic alone" /\ Alone!Next
     /\ UNCHANGED <<part, vars, mountVars, dirVars, undumpVars>>
  \/ /\ \/ part = "local dir" /\ LocalDir!Next
        \/ part = "local dir remade" /\ Remade!Next
     /\ UNCHANGED <<part, vars, mountVars, syntheticVars, undumpVars>>
  \/ /\ \/ part = "undump" /\ Undump!Next
        \/ part = "undump again" /\ UndumpAgain!Next
     /\ UNCHANGED <<part, vars, mountVars, syntheticVars, dirVars>>

\* The fairness of WorldRefresh and of LocalDirWorld, for the parts that are checked to get on.
AllSpec ==
  /\ AllInit
  /\ [][AllNext]_<<part, vars, mountVars, syntheticVars, dirVars, undumpVars>>
  /\ WF_vars(part = "quiet refresh" /\ Quiet!Loop)
  /\ \A r \in Quiet!RefreshInfo : WF_vars(part = "quiet refresh" /\ Quiet!RefreshedCb(r))
  /\ WF_dirVars(part = "local dir" /\ LocalDir!Populate)
  /\ WF_dirVars(part = "local dir" /\ LocalDir!Sync)

-----------------------------------------------------------------------------
\* A refresh ends, and a client that got a pending is told of it (refreshed_cb cuts over when
\* the last subworld is ready, and then finishes the pending).
QuietlyEnds ==
  /\ refreshing /\ part = "quiet refresh" ~> ~refreshing
  /\ \A p \in 1..MaxRefreshes :
       p \in held /\ part = "quiet refresh" ~> p \in held /\ pendings[p] = "finished"

\* Of two services in a multi world that share a URL, an id, or a name but for case, the first
\* is of a type derived from that of services, which is the only way around the checks of
\* rc_world_multi_mount_service and rc_world_multi_add_subworld (rc-world-multi.c:1029).
OnlyDerivedShare == Mounts!TypeOK /\ Mounts!OnlyDerivedShare

\* What a world shows is what its file or directory has: a synthetic world from a load or
\* a save that went well to the next edit, with what a transaction that is done was asked
\* for, if no refresh of a multi world has replaced the world and the file was not cut short
\* when it was written (which is not looked at, rc-world-synthetic.c:131); and a world that
\* has the time of its directory, so that the next sync need not read it
\* (rc_world_synthetic_load_packages, rc_world_synthetic_transact,
\* rc_world_local_dir_populate).
SavedIsShown ==
  /\ Synthetic!TypeOK /\ LocalDir!TypeOK
  /\ Synthetic!SavedIsShown
  /\ part = "synthetic alone" => Synthetic!TransactionsAreSaved
  /\ LocalDir!SameTimeSamePackages

\* What changes in a directory that stays is picked up by later syncs, if nothing changes
\* twice in a second (rc_world_local_dir_sync_fn).
PicksUp == part = "local dir" => LocalDir!PicksUp

\* The dump of a world that was loaded once is read back as the same, the packages are
\* those of the last dump, and no channel goes while the store, a subscription or a package
\* has it (rc_extract_packages_from_undump_buffer, rc_world_undump_load, rc_channel_unref).
DumpsReadBack ==
  /\ loads <= 1 => Undump!DumpsReadBack
  /\ Undump!ShowsTheLast
  /\ Undump!HeldWhileUsed
=============================================================================
