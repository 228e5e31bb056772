----------------------------- MODULE WorldRefresh -----------------------------
(***************************************************************************)
(* The refresh of a multi world.  A multi world shows the packages of its  *)
(* subworlds.  To refresh it, every subworld that has a refresh function   *)
(* is duplicated and the duplicates are refreshed, each at its own pace,   *)
(* while the old subworlds still answer; when the last duplicate is ready  *)
(* they all take the places of their originals at once.                    *)
(*                                                                         *)
(* A world is a pair of a service and a generation: 0, or the number of    *)
(* the refresh that duplicated it.  A service that is mounted again is a   *)
(* new object in the program and another service here.  Everything runs in *)
(* one thread, from a main loop: an action is a callback or a call from    *)
(* outside, except that the loop of rc_world_multi_refresh_fn is taken     *)
(* apart into a step per subworld, during which nothing else happens.      *)
(***************************************************************************)
EXTENDS Integers, Sequences, FiniteSets, SequencesExt

CONSTANTS
  Service,       \* what can be mounted
  Refreshable,   \* the services whose class has a refresh function
  Immediate,     \* those whose refresh has ended when the function returns
  Mounted,       \* the lists of services that may be mounted at first
  Changes,       \* what clients may do while a refresh is going on
  MaxRefreshes,  \* a bound on the number of refreshes
  NONE           \* no world

ASSUME RefreshAssumption ==
  /\ Immediate \subseteq Refreshable
  /\ Refreshable \subseteq Service
  /\ Mounted \subseteq Seq(Service)
  /\ \A s \in Mounted : IsInjective(s)
  /\ Changes \subseteq {"mount", "unmount"}
  /\ MaxRefreshes \in Nat
  /\ NONE \notin Service \X Nat

VARIABLES
  subworlds,     \* the list of SubworldInfos
  refreshing,    \* refresh_pending of the multi world
  count,         \* the number of refreshes begun
  multiPending,  \* multi_pending: the number of its refresh, or 0 for none
  pendings,      \* the status of the pending of each refresh
  held,          \* the pendings that a call of refresh has returned
  inProgress,    \* the RefreshInfos whose duplicate is not refreshed yet
  loop,          \* the subworld the refresh function has come to, 0 outside it
  known,         \* the services that have been mounted
  aborted        \* whether an assertion has failed

vars == <<subworlds, refreshing, count, multiPending, pendings, held,
          inProgress, loop, known, aborted>>

World        == Service \X (0..MaxRefreshes)
SubworldInfo == [world : World, refreshed : World \cup {NONE}, ready : BOOLEAN]
RefreshInfo  == [world : World, refreshed : World]

TypeOK ==
  /\ subworlds \in Seq(SubworldInfo)
  /\ refreshing \in BOOLEAN
  /\ count \in 0..MaxRefreshes
  /\ multiPending \in 0..count
  /\ pendings \in [1..count -> {"running", "finished"}]
  /\ held \subseteq 1..count
  /\ inProgress \subseteq RefreshInfo
  /\ loop \in 0..(Len(subworlds) + 1)
  /\ known \subseteq Service
  /\ aborted \in BOOLEAN

SubworldNew(w) == [world |-> w, refreshed |-> NONE, ready |-> FALSE]

Init ==
  /\ \E services \in Mounted :
       /\ subworlds = [i \in 1..Len(services) |-> SubworldNew(<<services[i], 0>>)]
       /\ known = Range(services)
  /\ refreshing = FALSE
  /\ count = 0
  /\ multiPending = 0
  /\ pendings = <<>>
  /\ held = {}
  /\ inProgress = {}
  /\ loop = 0
  /\ aborted = FALSE

-----------------------------------------------------------------------------
\* Cutting over.

\* Faulty: one subworld is enough.
AnyReady(infos) == \E i \in 1..Len(infos) : infos[i].ready

AllReady(infos) == \A i \in 1..Len(infos) : infos[i].ready

IsRefreshed(info) == info.refreshed # NONE

\* Faulty: the list is walked while it changes; the walk ends at the first link
\* that is taken out.
CutOverUncopied(infos) ==
  LET places == {i \in 1..Len(infos) : IsRefreshed(infos[i])}
      first  == CHOOSE i \in places : \A j \in places : i <= j
  IN  IF places = {} THEN infos
      ELSE Append(RemoveAt(infos, first), SubworldNew(infos[first].refreshed))

\* Those that have a duplicate come after the others.
CutOverPlace(infos) ==
  [i \in 1..Len(infos) |-> IF IsRefreshed(infos[i]) THEN Len(infos) + i ELSE i]

SwitchedOver(info) == IF IsRefreshed(info) THEN SubworldNew(info.refreshed) ELSE info

\* The list after every duplicate has been put at its end and its original
\* taken out: the k-th is the one with k places up to its own.
CutOver(infos) ==
  LET place   == CutOverPlace(infos)
      rank(i) == Cardinality({j \in 1..Len(infos) : place[j] <= place[i]})
  IN  [k \in 1..Len(infos) |-> SwitchedOver(infos[CHOOSE i \in 1..Len(infos) : rank(i) = k])]

\* Faulty: the clients are not told.
FinishPendingNot(p) == pendings

FinishPending(p) == [pendings EXCEPT ![p] = "finished"]

\* rc_world_multi_cut_over_to_new_subworlds when it is called with the list
\* infos and returns TRUE.
CutsOver(infos) == refreshing /\ AllReady(infos)
DoCutOver(infos) ==
  /\ subworlds' = CutOver(infos)
  /\ multiPending' = 0
  /\ refreshing' = FALSE

\* refreshed_cb for the subworld at place i of infos: it is ready; cut over
\* if all are, and tell the clients that the refresh is finished.
Ready(infos, i) == [infos EXCEPT ![i].ready = TRUE]
RefreshedCutsOver(infos) ==
  /\ CutsOver(infos)
  /\ DoCutOver(infos)
  /\ pendings' = FinishPending(multiPending)
RefreshedWaits(infos) ==
  /\ ~CutsOver(infos)
  /\ subworlds' = infos
  /\ UNCHANGED <<refreshing, multiPending, pendings>>

-----------------------------------------------------------------------------
\* rc_world_multi_refresh_fn.

BeginRefresh ==
  /\ loop = 0 /\ ~refreshing /\ subworlds # <<>> /\ count < MaxRefreshes
  /\ count' = count + 1
  /\ multiPending' = count + 1
  /\ pendings' = Append(pendings, "running")
  /\ refreshing' = TRUE
  /\ loop' = 1
  /\ UNCHANGED <<subworlds, held, inProgress, known, aborted>>

\* A refresh is already running.
RefreshAgain ==
  /\ loop = 0 /\ refreshing
  /\ held' = held \cup {multiPending}
  /\ UNCHANGED <<subworlds, refreshing, count, multiPending, pendings,
                 inProgress, loop, known, aborted>>

\* Faulty: a subworld without a refresh function is waited for.
SkipSubworldUnready ==
  /\ loop \in 1..Len(subworlds)
  /\ subworlds[loop].world[1] \notin Refreshable
  /\ loop' = loop + 1
  /\ UNCHANGED <<subworlds, refreshing, count, multiPending, pendings, held,
                 inProgress, known, aborted>>

SkipSubworld ==
  /\ loop \in 1..Len(subworlds)
  /\ subworlds[loop].world[1] \notin Refreshable
  /\ subworlds' = Ready(subworlds, loop)
  /\ loop' = loop + 1
  /\ UNCHANGED <<refreshing, count, multiPending, pendings, held,
                 inProgress, known, aborted>>

\* The list with the duplicate of the subworld the loop has come to.
WithDuplicate ==
  [subworlds EXCEPT ![loop].refreshed = <<subworlds[loop].world[1], count>>]

\* The duplicate is refreshed in the call.  If this cuts over, the link the
\* loop stands on is taken out of the list and the loop ends.
RefreshSubworldAtOnce ==
  /\ loop \in 1..Len(subworlds)
  /\ subworlds[loop].world[1] \in Immediate
  /\ LET infos == Ready(WithDuplicate, loop)
     IN  \/ RefreshedCutsOver(infos) /\ loop' = 0
         \/ RefreshedWaits(infos) /\ loop' = loop + 1
  /\ UNCHANGED <<count, held, inProgress, known, aborted>>

RefreshSubworldLater ==
  /\ loop \in 1..Len(subworlds)
  /\ subworlds[loop].world[1] \in Refreshable \ Immediate
  /\ subworlds' = WithDuplicate
  /\ inProgress' = inProgress \cup
       {[world |-> subworlds[loop].world, refreshed |-> WithDuplicate[loop].refreshed]}
  /\ loop' = loop + 1
  /\ UNCHANGED <<refreshing, count, multiPending, pendings, held, known, aborted>>

\* After the loop: cut over, in which case NULL is returned and the pending is
\* dropped as it is, or return the pending.
EndRefresh ==
  /\ loop # 0 /\ loop > Len(subworlds)
  /\ loop' = 0
  /\ \/ /\ CutsOver(subworlds)
        /\ DoCutOver(subworlds)
        /\ UNCHANGED held
     \/ /\ ~CutsOver(subworlds)
        /\ held' = held \cup {multiPending}
        /\ UNCHANGED <<subworlds, multiPending, refreshing>>
  /\ UNCHANGED <<count, pendings, inProgress, known, aborted>>

-----------------------------------------------------------------------------
\* A duplicate has been refreshed.

Places(w) == {i \in 1..Len(subworlds) : subworlds[i].world = w}

\* refreshed_cb.
RefreshedCb(r) ==
  /\ loop = 0 /\ r \in inProgress
  /\ \E i \in Places(r.world) :
       \/ RefreshedCutsOver(Ready(subworlds, i))
       \/ RefreshedWaits(Ready(subworlds, i))
  /\ inProgress' = inProgress \ {r}
  /\ UNCHANGED <<count, held, loop, known, aborted>>

\* The assertion that the subworld is still there.
RefreshedAborts(r) ==
  /\ loop = 0 /\ r \in inProgress
  /\ Places(r.world) = {}
  /\ aborted' = TRUE
  /\ UNCHANGED <<subworlds, refreshing, count, multiPending, pendings, held,
                 inProgress, loop, known>>

-----------------------------------------------------------------------------
\* What clients do.

MountService(s) ==
  /\ loop = 0
  /\ s \notin known
  /\ refreshing => "mount" \in Changes
  /\ subworlds' = Append(subworlds, SubworldNew(<<s, 0>>))
  /\ known' = known \cup {s}
  /\ UNCHANGED <<refreshing, count, multiPending, pendings, held, inProgress,
                 loop, aborted>>

RemoveSubworld(i) ==
  /\ loop = 0
  /\ refreshing => "unmount" \in Changes
  /\ subworlds' = RemoveAt(subworlds, i)
  /\ UNCHANGED <<refreshing, count, multiPending, pendings, held, inProgress,
                 loop, known, aborted>>

-----------------------------------------------------------------------------
Loop == SkipSubworld \/ RefreshSubworldAtOnce \/ RefreshSubworldLater \/ EndRefresh

Next ==
  /\ ~aborted
  /\ \/ BeginRefresh
     \/ RefreshAgain
     \/ Loop
     \/ \E r \in inProgress : RefreshedCb(r) \/ RefreshedAborts(r)
     \/ \E s \in Service : MountService(s)
     \/ \E i \in 1..Len(subworlds) : RemoveSubworld(i)

Spec == Init /\ [][Next]_vars

\* The refresh function runs to its end, and every refresh of a duplicate ends.
FairSpec ==
  /\ Spec
  /\ WF_vars(Loop)
  /\ \A r \in RefreshInfo : WF_vars(RefreshedCb(r))

-----------------------------------------------------------------------------
\* Clients see the refresh of all subworlds as one step: until it ends they
\* see the old ones, and then every world that can be refreshed has been
\* replaced (rc_world_multi_cut_over_to_new_subworlds).
Atomic == INSTANCE AtomicRefresh WITH
  shown <- {subworlds[i].world : i \in 1..Len(subworlds)},
  generation <- count

ImplementsAtomicRefresh == Atomic!Spec

\* No world is shown while it is still being loaded.
ShowsLoadedWorlds ==
  \A i \in 1..Len(subworlds), r \in inProgress : subworlds[i].world # r.refreshed

\* A client that got a pending for a refresh can tell from it whether that
\* refresh is still going on (refreshed_cb finishes the pending that
\* rc_world_multi_refresh_fn returned).
PendingsTellTheTruth ==
  \A p \in held : pendings[p] = "running" <=> refreshing /\ multiPending = p

\* A refresh that waits after its function has returned waits for a subworld
\* that is being refreshed (the comment in
\* rc_world_multi_cut_over_to_new_subworlds).
WaitsForTheRefreshed ==
  refreshing /\ loop = 0 =>
    \E i \in 1..Len(subworlds) : IsRefreshed(subworlds[i]) /\ ~subworlds[i].ready

\* The assertion in refreshed_cb holds: a subworld whose duplicate has been
\* refreshed is still in the list.
OriginalIsThere == ~aborted

=============================================================================
