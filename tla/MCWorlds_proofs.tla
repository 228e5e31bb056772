---------------------------- MODULE MCWorlds_proofs ----------------------------
(***************************************************************************)
(* What holds of the refresh of a multi world for all services, all lists  *)
(* of subworlds, everything clients do meanwhile and any number of         *)
(* refreshes: the pendings that clients get tell the truth, no world is    *)
(* shown while it is being loaded, and the old worlds are replaced by the  *)
(* new ones in one step.  And what holds of the worlds that are mounted,   *)
(* for all packages, URLs and bounds: what a synthetic world and a         *)
(* directory show is what is in their files, and no two services have the  *)
(* URL, the id or the name in common.                                      *)
(***************************************************************************)
EXTENDS MCWorlds, FunctionTheorems, FiniteSetTheorems, NaturalsInduction, WellFoundedInduction,
        TLAPS

-----------------------------------------------------------------------------
(* The refresh of a multi world *)

\* A non-empty set of naturals has a smallest element.
LEMMA SmallestExists ==
  ASSUME NEW T \in SUBSET Nat, T # {}
  PROVE  \E i \in T : \A j \in T : i <= j
<1>1. PICK i \in T : \A j \in T : <<j, i>> \notin OpToRel(<, Nat)
  BY NatLessThanWellFounded, WFMin
<1>2. \A j \in T : ~(j < i)
  BY <1>1 DEF OpToRel
<1> QED
  BY <1>2

\* The pendings, one per refresh begun, and the clients' part of them.
PendingsType ==
  /\ count \in Nat
  /\ pendings \in [1..count -> {"running", "finished"}]
  /\ held \subseteq 1..count
  /\ refreshing \in BOOLEAN

\* A refresh that goes on is the last one begun and its pending runs; the
\* function does not return a pending before it is through its loop; and
\* every other pending that was returned is finished.
PendingsInv ==
  /\ PendingsType
  /\ refreshing => count # 0 /\ multiPending = count /\ pendings[count] = "running"
  /\ loop # 0 => refreshing /\ count \notin held
  /\ \A p \in held : p # multiPending => pendings[p] = "finished"
  /\ ~refreshing => multiPending = 0

\* A cut over from within refreshed_cb finishes the pending of the refresh.
LEMMA RefreshedCutsOverKeeps ==
  ASSUME PendingsInv, NEW infos, RefreshedCutsOver(infos),
         count' = count, held' = held, loop' = 0
  PROVE  PendingsInv'
<1>1. /\ refreshing /\ refreshing' = FALSE /\ multiPending' = 0
      /\ multiPending = count /\ count # 0
      /\ pendings' = [pendings EXCEPT ![count] = "finished"]
  BY DEF PendingsInv, RefreshedCutsOver, CutsOver, DoCutOver, FinishPending
<1>2. PendingsType'
  BY <1>1 DEF PendingsInv, PendingsType
<1>3. \A p \in held' : pendings'[p] = "finished"
  BY <1>1 DEF PendingsInv, PendingsType
<1> QED
  BY <1>1, <1>2, <1>3 DEF PendingsInv

\* A duplicate that is ready before the others changes no pending.
LEMMA RefreshedWaitsKeeps ==
  ASSUME PendingsInv, NEW infos, RefreshedWaits(infos),
         count' = count, held' = held, loop' # 0 => loop # 0
  PROVE  PendingsInv'
BY DEF PendingsInv, PendingsType, RefreshedWaits

\* The step that begins a refresh makes a running pending nobody holds yet.
LEMMA BeginRefreshKeeps == ASSUME PendingsInv, BeginRefresh PROVE PendingsInv'
<1>1. /\ count' = count + 1 /\ multiPending' = count + 1 /\ held' = held
      /\ refreshing' = TRUE /\ loop' = 1 /\ count \in Nat
      /\ pendings' = Append(pendings, "running")
  BY DEF BeginRefresh, PendingsInv, PendingsType
<1>2. pendings \in Seq({"running", "finished"}) /\ Len(pendings) = count
  BY DEF PendingsInv, PendingsType
<1>3. /\ DOMAIN pendings' = 1..(count + 1)
      /\ pendings'[count + 1] = "running"
      /\ \A p \in 1..count : pendings'[p] = pendings[p]
      /\ pendings' \in [1..(count + 1) -> {"running", "finished"}]
  <2>1. DOMAIN pendings = 1..count
    BY DEF PendingsInv, PendingsType
  <2>2. /\ pendings' \in Seq({"running", "finished"}) /\ Len(pendings') = count + 1
        /\ pendings'[count + 1] = "running"
        /\ \A p \in 1..count : pendings'[p] = pendings[p]
    BY <1>1, <1>2
  <2>3. DOMAIN pendings' = 1..(count + 1)
    BY <1>1, <2>2
  <2>4. \A p \in 1..(count + 1) : pendings'[p] \in {"running", "finished"}
    BY <1>1, <2>2
  <2>5. pendings' = [p \in 1..(count + 1) |-> pendings'[p]]
    BY <2>2, <2>3
  <2> QED
    BY <2>2, <2>3, <2>4, <2>5
<1>4. multiPending = 0 /\ held \subseteq 1..count
  BY DEF BeginRefresh, PendingsInv, PendingsType
<1>5. \A p \in held' : pendings'[p] = "finished"
  <2> SUFFICES ASSUME NEW p \in held PROVE pendings[p] = "finished"
    BY <1>1, <1>3, <1>4
  <2> QED
    BY <1>1, <1>4 DEF PendingsInv
<1>6. PendingsType'
  BY <1>1, <1>3, <1>4 DEF PendingsType
<1> QED
  BY <1>1, <1>3, <1>4, <1>5, <1>6 DEF PendingsInv

\* A step of the loop of the refresh function.
LEMMA LoopKeeps == ASSUME PendingsInv, Loop PROVE PendingsInv'
<1>1. CASE SkipSubworld
  BY <1>1 DEF PendingsInv, PendingsType, SkipSubworld
<1>2. CASE RefreshSubworldLater
  BY <1>2 DEF PendingsInv, PendingsType, RefreshSubworldLater
<1>3. CASE RefreshSubworldAtOnce
  <2> DEFINE infos == Ready(WithDuplicate, loop)
  <2>1. /\ count' = count /\ held' = held /\ loop # 0
        /\ \/ RefreshedCutsOver(infos) /\ loop' = 0
           \/ RefreshedWaits(infos) /\ loop' = loop + 1
    BY <1>3 DEF RefreshSubworldAtOnce
  <2> HIDE DEF infos
  <2>2. CASE RefreshedCutsOver(infos) /\ loop' = 0
    BY <2>1, <2>2, RefreshedCutsOverKeeps
  <2>3. CASE RefreshedWaits(infos) /\ loop' = loop + 1
    BY <2>1, <2>3, RefreshedWaitsKeeps
  <2> QED
    BY <2>1, <2>2, <2>3
<1>4. CASE EndRefresh
  <2>1. /\ loop # 0 /\ refreshing /\ count \notin held /\ count' = count
        /\ pendings' = pendings /\ loop' = 0 /\ multiPending = count
    BY <1>4 DEF EndRefresh, PendingsInv
  <2>2. CASE DoCutOver(subworlds) /\ held' = held
    <3>1. \A p \in held' : pendings'[p] = "finished"
      BY <2>1, <2>2 DEF PendingsInv
    <3> QED
      BY <2>1, <2>2, <3>1 DEF PendingsInv, PendingsType, DoCutOver
  <2>3. CASE held' = held \cup {multiPending} /\ UNCHANGED <<multiPending, refreshing>>
    BY <2>1, <2>3 DEF PendingsInv, PendingsType
  <2> QED
    BY <1>4, <2>2, <2>3 DEF EndRefresh
<1> QED
  BY <1>1, <1>2, <1>3, <1>4 DEF Loop

\* Every step keeps the invariant.
LEMMA PendingsStep == ASSUME PendingsInv, [Next]_vars PROVE PendingsInv'
<1>1. CASE BeginRefresh
  BY <1>1, BeginRefreshKeeps
<1>2. CASE RefreshAgain
  <2>1. /\ multiPending \in 1..count /\ held' = held \cup {multiPending}
        /\ \A p \in held' : p # multiPending => pendings[p] = "finished"
    BY <1>2 DEF PendingsInv, PendingsType, RefreshAgain
  <2> QED
    BY <1>2, <2>1 DEF PendingsInv, PendingsType, RefreshAgain
<1>3. CASE Loop
  BY <1>3, LoopKeeps
<1>4. ASSUME NEW r, RefreshedCb(r) PROVE PendingsInv'
  <2>1. PICK infos : RefreshedCutsOver(infos) \/ RefreshedWaits(infos)
    BY <1>4 DEF RefreshedCb
  <2>2. count' = count /\ held' = held /\ loop = 0 /\ loop' = 0
    BY <1>4 DEF RefreshedCb
  <2> QED
    BY <2>1, <2>2, RefreshedCutsOverKeeps, RefreshedWaitsKeeps
<1>5. ASSUME NEW r, RefreshedAborts(r) PROVE PendingsInv'
  BY <1>5 DEF PendingsInv, PendingsType, RefreshedAborts
<1>6. ASSUME NEW s, MountService(s) PROVE PendingsInv'
  BY <1>6 DEF PendingsInv, PendingsType, MountService
<1>7. ASSUME NEW i, RemoveSubworld(i) PROVE PendingsInv'
  BY <1>7 DEF PendingsInv, PendingsType, RemoveSubworld
<1>8. CASE UNCHANGED vars
  BY <1>8 DEF PendingsInv, PendingsType, vars
<1> QED
  BY <1>1, <1>2, <1>3, <1>4, <1>5, <1>6, <1>7, <1>8 DEF Next

\* The invariant holds in every state of every behaviour.
LEMMA PendingsInvariant == Spec => []PendingsInv
<1>1. Init => PendingsInv
  <2> SUFFICES ASSUME Init PROVE PendingsInv
    OBVIOUS
  <2>1. /\ count = 0 /\ pendings = << >> /\ held = {} /\ refreshing = FALSE
        /\ loop = 0 /\ multiPending = 0
    BY DEF Init
  <2>2. pendings \in [1..0 -> {"running", "finished"}]
    BY <2>1
  <2> QED
    BY <2>1, <2>2 DEF PendingsInv, PendingsType
<1> QED
  BY <1>1, PendingsStep, PTL DEF Spec

\* A client that has got a pending can tell from it whether its refresh still
\* goes on (PendingsTellTheTruth), whatever is mounted, removed and refreshed
\* meanwhile and however many refreshes there are.
THEOREM PendingsAreTrue == Spec => []PendingsTellTheTruth
<1>1. PendingsInv => PendingsTellTheTruth
  <2> SUFFICES ASSUME PendingsInv, NEW p \in held
               PROVE  pendings[p] = "running" <=> refreshing /\ multiPending = p
    BY DEF PendingsTellTheTruth
  <2>1. p # 0
    BY DEF PendingsInv, PendingsType
  <2> QED
    BY <2>1 DEF PendingsInv
<1> QED
  BY <1>1, PendingsInvariant, PTL

-----------------------------------------------------------------------------
\* The subworlds and their duplicates.

\* A subworld is older than the refresh that goes on; its duplicate was made by
\* that refresh, and is there when a subworld that can be refreshed is ready.
InfoInv(info) ==
  /\ info.world[1] \in known
  /\ info.world[2] <= count
  /\ refreshing => info.world[2] < count
  /\ IsRefreshed(info) =>
       /\ refreshing /\ info.world[1] \in Refreshable
       /\ info.refreshed = <<info.world[1], count>>
  /\ info.ready /\ info.world[1] \in Refreshable => IsRefreshed(info)

\* A service is in the list once.
ListInv(infos) ==
  /\ infos \in Seq(SubworldInfo)
  /\ \A i, j \in 1..Len(infos) : infos[i].world[1] = infos[j].world[1] => i = j
  /\ \A i \in 1..Len(infos) : InfoInv(infos[i])

\* A duplicate is of the service of its original; while it is being refreshed its original, if it is still there, is
\* not ready.
DuplicatesInv(infos, duplicates) ==
  \A r \in duplicates :
    /\ r.world[1] \in known \cap Refreshable /\ r.refreshed[1] = r.world[1]
    /\ \A i \in 1..Len(infos) :
         infos[i].world[1] = r.world[1] =>
           /\ infos[i].world = r.world /\ infos[i].refreshed = r.refreshed
           /\ ~infos[i].ready

WorldsInv ==
  /\ count \in 0..MaxRefreshes /\ refreshing \in BOOLEAN
  /\ loop \in 0..(Len(subworlds) + 1) /\ known \subseteq Service /\ aborted \in BOOLEAN
  /\ inProgress \subseteq RefreshInfo
  /\ ListInv(subworlds)
  /\ DuplicatesInv(subworlds, inProgress)
  /\ refreshing => count # 0
  /\ loop # 0 => refreshing
  /\ loop # 0 => \A i \in loop..Len(subworlds) : ~IsRefreshed(subworlds[i])

\* To cut over puts the subworlds into another order, each switched over once.
LEMMA CutOverOrder ==
  ASSUME NEW infos, Len(infos) \in Nat
  PROVE  \E order \in [1..Len(infos) -> 1..Len(infos)] :
           /\ \A j, k \in 1..Len(infos) : order[j] = order[k] => j = k
           /\ \A i \in 1..Len(infos) : \E k \in 1..Len(infos) : order[k] = i
           /\ CutOver(infos) = [k \in 1..Len(infos) |-> SwitchedOver(infos[order[k]])]
<1> DEFINE n == Len(infos)
           place == CutOverPlace(infos)
           UpTo(i) == {j \in 1..n : place[j] <= place[i]}
           rank == [i \in 1..n |-> Cardinality(UpTo(i))]
           order == [k \in 1..n |-> CHOOSE i \in 1..n : Cardinality(UpTo(i)) = k]
<1>1. IsFiniteSet(1..n) /\ Cardinality(1..n) = n
  <2>1. 1 \in Int /\ n \in Nat /\ n \in Int
    OBVIOUS
  <2> HIDE DEF n
  <2>2. /\ IsFiniteSet(1..n)
        /\ Cardinality(1..n) = IF 1 > n THEN 0 ELSE n - 1 + 1
    BY <2>1, FS_Interval
  <2> QED
    BY <2>1, <2>2
<1>2. /\ \A i \in 1..n : place[i] \in Int
      /\ \A i, j \in 1..n : place[i] = place[j] => i = j
  BY DEF CutOverPlace
<1> HIDE DEF place
<1>3. ASSUME NEW i \in 1..n
      PROVE  IsFiniteSet(UpTo(i)) /\ Cardinality(UpTo(i)) \in 1..n
  <2>1. UpTo(i) \in SUBSET (1..n) /\ i \in UpTo(i)
    BY <1>2
  <2>2. IsFiniteSet(UpTo(i)) /\ Cardinality(UpTo(i)) <= n /\ Cardinality(UpTo(i)) \in Nat
    BY <1>1, <2>1, FS_Subset, FS_CardinalityType
  <2>3. Cardinality(UpTo(i)) # 0
    BY <2>1, <2>2, FS_EmptySet
  <2> QED
    BY <2>2, <2>3
<1>4. ASSUME NEW i \in 1..n, NEW j \in 1..n, place[i] < place[j]
      PROVE  Cardinality(UpTo(i)) # Cardinality(UpTo(j))
  <2>1. UpTo(i) \in SUBSET UpTo(j) /\ j \in UpTo(j) /\ j \notin UpTo(i)
    BY <1>2, <1>4
  <2> QED
    BY <2>1, <1>3, FS_Subset
<1>5. rank \in Injection(1..n, 1..n)
  <2>1. rank \in [1..n -> 1..n]
    BY <1>3
  <2>2. ASSUME NEW i \in 1..n, NEW j \in 1..n, rank[i] = rank[j]
        PROVE  i = j
    BY <1>2, <1>4, <2>2
  <2> QED
    BY <2>1, <2>2 DEF Injection, IsInjective
<1>6. rank \in Surjection(1..n, 1..n)
  BY <1>1, <1>5, FS_Injection
<1>7. ASSUME NEW k \in 1..n
      PROVE  order[k] \in 1..n /\ rank[order[k]] = k
  <2>1. PICK i \in 1..n : rank[i] = k
    BY <1>6 DEF Surjection
  <2>2. Cardinality(UpTo(i)) = k
    BY <2>1
  <2> HIDE DEF UpTo
  <2>3. order[k] \in 1..n /\ Cardinality(UpTo(order[k])) = k
    BY <2>2
  <2> HIDE DEF order
  <2> QED
    BY <2>3
<1>8. \A i \in 1..n : order[rank[i]] = i /\ rank[i] \in 1..n
  BY <1>3, <1>5, <1>7 DEF Injection, IsInjective
<1>9. CutOver(infos) = [k \in 1..n |-> SwitchedOver(infos[order[k]])]
  BY DEF CutOver, place
<1>10. order \in [1..n -> 1..n]
  BY <1>7
<1> HIDE DEF rank, order
<1>11. \A j, k \in 1..n : order[j] = order[k] => j = k
  BY <1>7
<1>12. \A i \in 1..n : \E k \in 1..n : order[k] = i
  BY <1>8
<1> HIDE DEF n
<1> QED
  BY <1>9, <1>10, <1>11, <1>12 DEF n

\* A subworld that is switched over, and was refreshed if it can be.
LEMMA SwitchedOverKeeps ==
  ASSUME NEW info \in SubworldInfo, InfoInv(info), count \in Nat,
         count' = count, known' = known, refreshing' = FALSE
  PROVE  /\ SwitchedOver(info) \in SubworldInfo
         /\ SwitchedOver(info).world[1] = info.world[1]
         /\ InfoInv(SwitchedOver(info))'
<1>1. info.refreshed \in World \cup {NONE} /\ info.world \in World
  BY DEF SubworldInfo
<1>2. CASE IsRefreshed(info)
  <2>1. SwitchedOver(info) = [world |-> <<info.world[1], count>>, refreshed |-> NONE, ready |-> FALSE]
    BY <1>2 DEF SwitchedOver, SubworldNew, InfoInv
  <2>2. <<info.world[1], count>> \in World
    BY <1>1, <1>2 DEF InfoInv, IsRefreshed
  <2> QED
    BY <2>1, <2>2 DEF InfoInv, SubworldInfo, IsRefreshed
<1>3. CASE ~IsRefreshed(info)
  BY <1>3 DEF SwitchedOver, InfoInv, IsRefreshed
<1> QED
  BY <1>2, <1>3

\* Cutting over leaves no duplicate in the list.
LEMMA CutOverKeeps ==
  ASSUME WorldsInv, NEW infos, ListInv(infos), refreshing,
         subworlds' = CutOver(infos), refreshing' = FALSE,
         count' = count, known' = known, aborted' = aborted, loop' = 0,
         inProgress' \subseteq inProgress,
         \A r \in inProgress' : \A i \in 1..Len(infos) : infos[i].world[1] # r.world[1]
  PROVE  WorldsInv'
<1>1. PICK order \in [1..Len(infos) -> 1..Len(infos)] :
        /\ \A j, k \in 1..Len(infos) : order[j] = order[k] => j = k
        /\ \A i \in 1..Len(infos) : \E k \in 1..Len(infos) : order[k] = i
        /\ CutOver(infos) = [k \in 1..Len(infos) |-> SwitchedOver(infos[order[k]])]
  <2>1. Len(infos) \in Nat
    BY DEF ListInv
  <2> QED
    BY <2>1, CutOverOrder
<1>2. count \in Nat
  BY DEF WorldsInv
<1>3. ASSUME NEW k \in 1..Len(infos)
      PROVE  /\ subworlds'[k] \in SubworldInfo
             /\ subworlds'[k].world[1] = infos[order[k]].world[1]
             /\ InfoInv(subworlds[k])'
  <2>1. infos[order[k]] \in SubworldInfo /\ InfoInv(infos[order[k]]) /\ order[k] \in 1..Len(infos)
    BY DEF ListInv
  <2>2. subworlds'[k] = SwitchedOver(infos[order[k]])
    BY <1>1
  <2>3. InfoInv(SwitchedOver(infos[order[k]]))'
    BY <1>2, <2>1, SwitchedOverKeeps
  <2> QED
    BY <1>2, <2>1, <2>2, <2>3, SwitchedOverKeeps
<1>4. subworlds' \in Seq(SubworldInfo) /\ Len(subworlds') = Len(infos)
  BY <1>1, <1>3 DEF ListInv
<1>5. ListInv(subworlds)'
  <2>1. ASSUME NEW j \in 1..Len(infos), NEW k \in 1..Len(infos),
               subworlds'[j].world[1] = subworlds'[k].world[1]
        PROVE  j = k
    <3>1. infos[order[j]].world[1] = infos[order[k]].world[1]
      BY <1>3, <2>1
    <3>2. order[j] = order[k]
      BY <3>1 DEF ListInv
    <3> QED
      BY <1>1, <3>2
  <2> QED
    BY <1>3, <1>4, <2>1 DEF ListInv
<1>6. DuplicatesInv(subworlds, inProgress)'
  <2>1. ASSUME NEW r \in inProgress', NEW k \in 1..Len(infos)
        PROVE  subworlds'[k].world[1] # r.world[1]
    BY <1>3
  <2>2. \A r \in inProgress' :
          r.world[1] \in known' \cap Refreshable /\ r.refreshed[1] = r.world[1]
    BY DEF WorldsInv, DuplicatesInv
  <2> QED
    BY <1>4, <2>1, <2>2 DEF DuplicatesInv
<1>7. loop' \in 0..(Len(subworlds') + 1)
  <2>1. Len(subworlds') \in Nat
    BY <1>4
  <2> QED
    BY <2>1
<1>8. inProgress' \subseteq RefreshInfo /\ ~(loop # 0)'
  BY DEF WorldsInv
<1> QED
  BY <1>5, <1>6, <1>7, <1>8 DEF WorldsInv

\* A list in which a subworld has become ready.
LEMMA ReadyKeeps ==
  ASSUME NEW infos, ListInv(infos), NEW i \in 1..Len(infos),
         infos[i].world[1] \in Refreshable => IsRefreshed(infos[i])
  PROVE  /\ ListInv(Ready(infos, i)) /\ Len(Ready(infos, i)) = Len(infos)
         /\ \A j \in 1..Len(infos) :
              /\ Ready(infos, i)[j].world = infos[j].world
              /\ Ready(infos, i)[j].refreshed = infos[j].refreshed
              /\ j # i => Ready(infos, i)[j] = infos[j]
         /\ Ready(infos, i)[i].ready
<1> DEFINE ready == Ready(infos, i)
<1>1. infos \in Seq(SubworldInfo) /\ Len(infos) \in Nat
  BY DEF ListInv
<1>2. /\ Len(ready) = Len(infos)
      /\ \A j \in 1..Len(infos) :
           ready[j] = IF j = i THEN [infos[i] EXCEPT !.ready = TRUE] ELSE infos[j]
  BY <1>1 DEF Ready
<1>3. /\ ready[i] \in SubworldInfo /\ ready[i].ready = TRUE
      /\ ready[i].world = infos[i].world /\ ready[i].refreshed = infos[i].refreshed
  <2>1. infos[i] \in SubworldInfo
    BY <1>1
  <2> QED
    BY <1>2, <2>1 DEF SubworldInfo
<1> HIDE DEF ready
<1>4. ASSUME NEW j \in 1..Len(infos)
      PROVE  /\ ready[j] \in SubworldInfo /\ InfoInv(ready[j])
             /\ ready[j].world = infos[j].world /\ ready[j].refreshed = infos[j].refreshed
  <2>1. infos[j] \in SubworldInfo /\ InfoInv(infos[j])
    BY <1>1 DEF ListInv
  <2>2. CASE j = i
    BY <1>3, <2>1, <2>2 DEF InfoInv, IsRefreshed
  <2>3. CASE j # i
    BY <1>2, <2>1, <2>3
  <2> QED
    BY <2>2, <2>3
<1>5. ready \in Seq(SubworldInfo)
  <2>1. ready = [infos EXCEPT ![i] = [infos[i] EXCEPT !.ready = TRUE]]
    BY DEF ready, Ready
  <2>2. [infos[i] EXCEPT !.ready = TRUE] \in SubworldInfo
    BY <1>2, <1>3
  <2> QED
    BY <1>1, <2>1, <2>2
<1>6. ListInv(ready)
  BY <1>2, <1>4, <1>5 DEF ListInv
<1> QED
  BY <1>2, <1>3, <1>4, <1>6 DEF ready

\* The subworld the loop has come to has no duplicate yet; the list with the
\* duplicate of one that can be refreshed.
LEMMA WithDuplicateKeeps ==
  ASSUME WorldsInv, loop \in 1..Len(subworlds), subworlds[loop].world[1] \in Refreshable
  PROVE  /\ ListInv(WithDuplicate) /\ Len(WithDuplicate) = Len(subworlds)
         /\ \A j \in 1..Len(subworlds) :
              /\ WithDuplicate[j].world = subworlds[j].world
              /\ j # loop => WithDuplicate[j] = subworlds[j]
         /\ WithDuplicate[loop].refreshed = <<subworlds[loop].world[1], count>>
         /\ ~WithDuplicate[loop].ready
         /\ IsRefreshed(WithDuplicate[loop])
         /\ \A r \in inProgress : r.world[1] # subworlds[loop].world[1]
<1>1. /\ subworlds \in Seq(SubworldInfo) /\ refreshing /\ ~IsRefreshed(subworlds[loop])
      /\ subworlds[loop] \in SubworldInfo /\ InfoInv(subworlds[loop]) /\ count \in 0..MaxRefreshes
  BY DEF WorldsInv, ListInv
<1> DEFINE duplicate == <<subworlds[loop].world[1], count>>
           new == WithDuplicate[loop]
<1>2. ~subworlds[loop].ready
  BY <1>1 DEF InfoInv
<1>3. duplicate \in World /\ duplicate # NONE
  BY <1>1, RefreshAssumption DEF SubworldInfo, World
<1>4. /\ Len(WithDuplicate) = Len(subworlds) /\ WithDuplicate \in Seq(SubworldInfo)
      /\ \A j \in 1..Len(subworlds) : j # loop => WithDuplicate[j] = subworlds[j]
      /\ new = [subworlds[loop] EXCEPT !.refreshed = duplicate]
  <2> DEFINE rec == [subworlds[loop] EXCEPT !.refreshed = duplicate]
  <2>1. rec \in SubworldInfo
    BY <1>1, <1>3 DEF SubworldInfo
  <2>2. WithDuplicate = [subworlds EXCEPT ![loop] = rec]
    BY DEF WithDuplicate
  <2> HIDE DEF rec
  <2>3. /\ [subworlds EXCEPT ![loop] = rec] \in Seq(SubworldInfo)
        /\ Len([subworlds EXCEPT ![loop] = rec]) = Len(subworlds)
        /\ [subworlds EXCEPT ![loop] = rec][loop] = rec
        /\ \A j \in 1..Len(subworlds) : j # loop => [subworlds EXCEPT ![loop] = rec][j] = subworlds[j]
    BY <1>1, <2>1
  <2> QED
    BY <2>2, <2>3 DEF rec
<1>5. /\ new \in SubworldInfo /\ InfoInv(new) /\ IsRefreshed(new)
      /\ new.world = subworlds[loop].world /\ new.refreshed = duplicate /\ ~new.ready
  <2>1. /\ new.world = subworlds[loop].world /\ new.refreshed = duplicate
        /\ new.ready = subworlds[loop].ready
    BY <1>1, <1>4 DEF SubworldInfo
  <2> HIDE DEF new
  <2> QED
    BY <1>1, <1>2, <1>3, <1>4, <2>1 DEF InfoInv, IsRefreshed, new
<1>6. ListInv(WithDuplicate)
  <2>1. \A j \in 1..Len(subworlds) : WithDuplicate[j].world = subworlds[j].world
    BY <1>4, <1>5
  <2>2. ASSUME NEW j \in 1..Len(subworlds) PROVE InfoInv(WithDuplicate[j])
    BY <1>4, <1>5 DEF ListInv, WorldsInv
  <2> QED
    BY <1>4, <2>1, <2>2 DEF ListInv, WorldsInv
<1>7. ASSUME NEW r \in inProgress, r.world[1] = subworlds[loop].world[1]
      PROVE  FALSE
  <2>1. r.refreshed \in World /\ subworlds[loop].refreshed = r.refreshed
    BY <1>7 DEF WorldsInv, DuplicatesInv, RefreshInfo
  <2> QED
    BY <1>1, <2>1, RefreshAssumption DEF IsRefreshed, World
<1> QED
  BY <1>4, <1>5, <1>6, <1>7

\* The list a subworld is refreshed in at once, and the one in which a duplicate
\* has been refreshed: they show what was shown, and no duplicate that is still
\* being refreshed belongs to the subworld that has become ready.
LEMMA AtOnceKeeps ==
  ASSUME WorldsInv, loop \in 1..Len(subworlds), subworlds[loop].world[1] \in Refreshable,
         NEW infos, infos = Ready(WithDuplicate, loop)
  PROVE  /\ ListInv(infos) /\ DuplicatesInv(infos, inProgress) /\ Len(infos) = Len(subworlds)
         /\ \A j \in 1..Len(infos) : infos[j].world = subworlds[j].world
         /\ \A j \in 1..Len(infos) : j # loop => infos[j] = subworlds[j]
<1>1. /\ ListInv(infos) /\ Len(infos) = Len(subworlds)
      /\ \A j \in 1..Len(infos) : infos[j].world = subworlds[j].world
      /\ \A j \in 1..Len(infos) : j # loop => infos[j] = subworlds[j]
  BY WithDuplicateKeeps, ReadyKeeps
<1>2. \A r \in inProgress : r.world[1] # subworlds[loop].world[1]
  BY WithDuplicateKeeps
<1>3. DuplicatesInv(infos, inProgress)
  BY <1>1, <1>2 DEF WorldsInv, DuplicatesInv
<1> QED
  BY <1>1, <1>3

LEMMA RefreshedKeeps ==
  ASSUME WorldsInv, NEW r \in inProgress,
         NEW i \in 1..Len(subworlds), subworlds[i].world = r.world
  PROVE  /\ ListInv(Ready(subworlds, i))
         /\ DuplicatesInv(Ready(subworlds, i), inProgress \ {r})
         /\ Len(Ready(subworlds, i)) = Len(subworlds)
         /\ \A j \in 1..Len(subworlds) : Ready(subworlds, i)[j].world = subworlds[j].world
<1> DEFINE infos == Ready(subworlds, i)
<1>1. /\ i \in 1..Len(subworlds) /\ subworlds[i].world = r.world
      /\ ListInv(subworlds) /\ r \in RefreshInfo
  BY DEF WorldsInv
<1>2. subworlds[i].refreshed = r.refreshed /\ IsRefreshed(subworlds[i])
  <2>1. subworlds[i].refreshed = r.refreshed
    BY <1>1 DEF WorldsInv, DuplicatesInv
  <2>2. r.refreshed \in Service \X Nat
    BY <1>1 DEF RefreshInfo, World
  <2> QED
    BY <2>1, <2>2, RefreshAssumption DEF IsRefreshed
<1>3. /\ ListInv(infos) /\ Len(infos) = Len(subworlds)
      /\ \A j \in 1..Len(subworlds) : infos[j].world = subworlds[j].world
      /\ \A j \in 1..Len(subworlds) : j # i => infos[j] = subworlds[j]
  BY <1>1, <1>2, ReadyKeeps
<1> HIDE DEF infos
<1>4. ASSUME NEW t \in inProgress \ {r}
      PROVE  t.world[1] # r.world[1]
  <2>1. SUFFICES ASSUME t.world[1] = r.world[1] PROVE FALSE
    OBVIOUS
  <2>2. t.world = r.world /\ t.refreshed = r.refreshed
    BY <1>1, <1>2, <2>1 DEF WorldsInv, DuplicatesInv
  <2>3. t \in RefreshInfo
    BY DEF WorldsInv
  <2>4. t = r
    BY <1>1, <2>2, <2>3 DEF RefreshInfo
  <2> QED
    BY <2>4
<1>5. DuplicatesInv(infos, inProgress \ {r})
  BY <1>1, <1>3, <1>4 DEF WorldsInv, DuplicatesInv
<1> QED
  BY <1>3, <1>5 DEF infos

\* When all are ready nothing in the list is being refreshed.
LEMMA ReadyOnesAreThrough ==
  ASSUME NEW infos, AllReady(infos), NEW duplicates, DuplicatesInv(infos, duplicates)
  PROVE  \A r \in duplicates : \A i \in 1..Len(infos) : infos[i].world[1] # r.world[1]
BY DEF AllReady, DuplicatesInv

\* To wait for the others keeps the list as it has become.
LEMMA WaitingKeeps ==
  ASSUME WorldsInv, NEW infos, ListInv(infos), Len(infos) = Len(subworlds),
         subworlds' = infos, inProgress' \subseteq RefreshInfo,
         DuplicatesInv(infos, inProgress'),
         count' = count, known' = known, refreshing' = refreshing, aborted' = aborted,
         \/ loop' = 0
         \/ /\ loop \in 1..Len(subworlds) /\ loop' = loop + 1
            /\ \A j \in 1..Len(infos) : j # loop => infos[j] = subworlds[j]
  PROVE  WorldsInv'
<1>1. ListInv(subworlds)'
  BY DEF ListInv, InfoInv
<1>2. DuplicatesInv(subworlds, inProgress)'
  BY DEF DuplicatesInv
<1>3. Len(subworlds) \in Nat
  BY DEF WorldsInv, ListInv
<1>4. /\ loop' \in 0..(Len(subworlds') + 1)
      /\ loop' # 0 => refreshing' /\ \A i \in loop'..Len(subworlds') : ~IsRefreshed(subworlds'[i])
  BY <1>3 DEF WorldsInv
<1>5. /\ count' \in 0..MaxRefreshes /\ refreshing' \in BOOLEAN
      /\ known' \subseteq Service /\ aborted' \in BOOLEAN
  BY DEF WorldsInv
<1> QED
  BY <1>1, <1>2, <1>4, <1>5 DEF WorldsInv, IsRefreshed

\* A refresh begins when no subworld has a duplicate; all become older than it.
LEMMA BeginKeepsWorlds == ASSUME WorldsInv, BeginRefresh PROVE WorldsInv'
<1>1. /\ ~refreshing /\ refreshing' = TRUE /\ count' = count + 1 /\ count' \in 0..MaxRefreshes
      /\ subworlds' = subworlds /\ known' = known /\ inProgress' = inProgress
      /\ aborted' = aborted /\ loop' = 1 /\ count \in Nat
  BY RefreshAssumption DEF BeginRefresh, WorldsInv
<1>2. ListInv(subworlds) /\ Len(subworlds) \in Nat
  BY DEF WorldsInv, ListInv
<1>3. \A j \in 1..Len(subworlds) : ~IsRefreshed(subworlds[j])
  BY <1>1, <1>2 DEF ListInv, InfoInv
<1>4. ASSUME NEW j \in 1..Len(subworlds)
      PROVE  InfoInv(subworlds[j])'
  <2>1. InfoInv(subworlds[j]) /\ subworlds[j] \in SubworldInfo
    BY <1>2 DEF ListInv
  <2>2. subworlds[j].world[2] \in Int
    BY <2>1 DEF SubworldInfo, World
  <2> QED
    BY <1>1, <1>3, <2>1, <2>2 DEF InfoInv, IsRefreshed
<1>5. ListInv(subworlds)'
  BY <1>1, <1>2, <1>4 DEF ListInv
<1>6. DuplicatesInv(subworlds, inProgress)'
  BY <1>1 DEF WorldsInv, DuplicatesInv
<1> QED
  BY <1>1, <1>2, <1>3, <1>5, <1>6 DEF WorldsInv, IsRefreshed

\* A service that is mounted was not there, nor has it a duplicate.
LEMMA MountKeepsWorlds == ASSUME WorldsInv, NEW s \in Service, MountService(s) PROVE WorldsInv'
<1> DEFINE new == SubworldNew(<<s, 0>>)
<1>1. /\ s \notin known /\ known' = known \cup {s} /\ subworlds' = Append(subworlds, new)
      /\ refreshing' = refreshing /\ count' = count /\ inProgress' = inProgress
      /\ aborted' = aborted /\ loop = 0 /\ loop' = 0
  BY DEF MountService
<1>2. /\ ListInv(subworlds) /\ subworlds \in Seq(SubworldInfo) /\ Len(subworlds) \in Nat
      /\ count \in 0..MaxRefreshes
  BY DEF WorldsInv, ListInv
<1>3. new \in SubworldInfo /\ new.world = <<s, 0>> /\ ~IsRefreshed(new) /\ ~new.ready
  <2>1. <<s, 0>> \in World
    BY RefreshAssumption DEF World
  <2> QED
    BY <2>1 DEF SubworldNew, SubworldInfo, IsRefreshed
<1> HIDE DEF new
<1>4. /\ Len(subworlds') = Len(subworlds) + 1 /\ subworlds' \in Seq(SubworldInfo)
      /\ \A j \in 1..Len(subworlds) : subworlds'[j] = subworlds[j]
      /\ subworlds'[Len(subworlds) + 1] = new
  BY <1>1, <1>2, <1>3
<1>5. \A j \in 1..Len(subworlds) : InfoInv(subworlds[j]) /\ subworlds[j].world[1] # s
  BY <1>1, <1>2 DEF ListInv, InfoInv
<1>6. InfoInv(new)'
  BY <1>1, <1>2, <1>3 DEF WorldsInv, InfoInv, IsRefreshed
<1>7. ListInv(subworlds)'
  <2>1. ASSUME NEW j \in 1..Len(subworlds') PROVE InfoInv(subworlds[j])'
    <3>1. CASE j \in 1..Len(subworlds)
      BY <1>1, <1>4, <1>5, <3>1 DEF InfoInv
    <3>2. CASE j = Len(subworlds) + 1
      BY <1>1, <1>4, <1>6, <3>2 DEF InfoInv
    <3> QED
      BY <1>2, <1>4, <3>1, <3>2
  <2>2. ASSUME NEW j \in 1..Len(subworlds'), NEW k \in 1..Len(subworlds'),
               subworlds'[j].world[1] = subworlds'[k].world[1]
        PROVE  j = k
    <3>1. CASE j \in 1..Len(subworlds) /\ k \in 1..Len(subworlds)
      BY <1>2, <1>4, <2>2, <3>1 DEF ListInv
    <3>2. CASE j = Len(subworlds) + 1 /\ k \in 1..Len(subworlds)
      BY <1>3, <1>4, <1>5, <2>2, <3>2
    <3>3. CASE j \in 1..Len(subworlds) /\ k = Len(subworlds) + 1
      BY <1>3, <1>4, <1>5, <2>2, <3>3
    <3> QED
      BY <1>2, <1>4, <3>1, <3>2, <3>3
  <2> QED
    BY <1>4, <2>1, <2>2 DEF ListInv
<1>8. DuplicatesInv(subworlds, inProgress)'
  <2> SUFFICES ASSUME NEW r \in inProgress, NEW j \in 1..Len(subworlds'),
                      subworlds'[j].world[1] = r.world[1]
               PROVE  /\ subworlds'[j].world = r.world /\ subworlds'[j].refreshed = r.refreshed
                      /\ ~subworlds'[j].ready
    BY <1>1 DEF WorldsInv, DuplicatesInv
  <2>1. r.world[1] # s
    BY <1>1 DEF WorldsInv, DuplicatesInv
  <2>2. j \in 1..Len(subworlds)
    BY <1>2, <1>3, <1>4, <2>1
  <2> QED
    BY <1>4, <2>2 DEF WorldsInv, DuplicatesInv
<1> QED
  BY <1>1, <1>2, <1>4, <1>7, <1>8 DEF WorldsInv

\* What is left of a list without its i-th element.
LEMMA WithoutOne ==
  ASSUME NEW S, NEW s \in Seq(S), NEW i \in 1..Len(s)
  PROVE  /\ RemoveAt(s, i) \in Seq(S) /\ Len(RemoveAt(s, i)) = Len(s) - 1
         /\ \A k \in 1..(Len(s) - 1) : RemoveAt(s, i)[k] = s[IF k < i THEN k ELSE k + 1]
<1>1. SubSeq(s, 1, i - 1) \in Seq(S) /\ SubSeq(s, i + 1, Len(s)) \in Seq(S)
  OBVIOUS
<1>2. /\ Len(SubSeq(s, 1, i - 1)) = i - 1 /\ Len(SubSeq(s, i + 1, Len(s))) = Len(s) - i
      /\ \A k \in 1..(i - 1) : SubSeq(s, 1, i - 1)[k] = s[k]
      /\ \A k \in 1..(Len(s) - i) : SubSeq(s, i + 1, Len(s))[k] = s[k + i]
  OBVIOUS
<1>3. RemoveAt(s, i) = SubSeq(s, 1, i - 1) \o SubSeq(s, i + 1, Len(s))
  BY DEF RemoveAt
<1> DEFINE a == SubSeq(s, 1, i - 1)
           b == SubSeq(s, i + 1, Len(s))
<1> HIDE DEF a, b
<1>4. a \in Seq(S) /\ b \in Seq(S) /\ Len(a) = i - 1 /\ Len(b) = Len(s) - i
  BY <1>1, <1>2 DEF a, b
<1>5. a \o b \in Seq(S) /\ Len(a \o b) = Len(s) - 1
  BY <1>4
<1>6. ASSUME NEW k \in 1..(Len(s) - 1)
      PROVE  (a \o b)[k] = s[IF k < i THEN k ELSE k + 1]
  <2>1. CASE k < i
    <3>1. (a \o b)[k] = a[k]
      BY <1>4, <2>1
    <3> QED
      BY <1>2, <2>1, <3>1 DEF a
  <2>2. CASE ~(k < i)
    <3>1. (a \o b)[k] = b[k - (i - 1)]
      BY <1>4, <2>2
    <3>2. k - (i - 1) \in 1..(Len(s) - i) /\ k - (i - 1) + i = k + 1
      BY <2>2
    <3> QED
      BY <1>2, <2>2, <3>1, <3>2 DEF b
  <2> QED
    BY <2>1, <2>2
<1> QED
  BY <1>3, <1>5, <1>6 DEF a, b

LEMMA RemoveKeepsWorlds ==
  ASSUME WorldsInv, NEW i \in 1..Len(subworlds), RemoveSubworld(i) PROVE WorldsInv'
<1>1. /\ subworlds' = RemoveAt(subworlds, i) /\ known' = known
      /\ refreshing' = refreshing /\ count' = count /\ inProgress' = inProgress
      /\ aborted' = aborted /\ loop = 0 /\ loop' = 0
  BY DEF RemoveSubworld
<1>2. /\ ListInv(subworlds) /\ subworlds \in Seq(SubworldInfo) /\ Len(subworlds) \in Nat
  BY DEF WorldsInv, ListInv
<1> DEFINE old(k) == IF k < i THEN k ELSE k + 1
<1>3. /\ subworlds' \in Seq(SubworldInfo) /\ Len(subworlds') = Len(subworlds) - 1
      /\ \A k \in 1..Len(subworlds') : subworlds'[k] = subworlds[old(k)]
  BY <1>1, <1>2, WithoutOne
<1>4. /\ \A k \in 1..Len(subworlds') : old(k) \in 1..Len(subworlds)
      /\ \A j, k \in 1..Len(subworlds') : old(j) = old(k) => j = k
  BY <1>2, <1>3
<1> HIDE DEF old
<1>5. ListInv(subworlds)'
  <2>1. ASSUME NEW k \in 1..Len(subworlds') PROVE InfoInv(subworlds[k])'
    BY <1>1, <1>2, <1>3, <1>4 DEF ListInv, InfoInv
  <2>2. ASSUME NEW j \in 1..Len(subworlds'), NEW k \in 1..Len(subworlds'),
               subworlds'[j].world[1] = subworlds'[k].world[1]
        PROVE  j = k
    <3>1. old(j) = old(k)
      BY <1>2, <1>3, <1>4, <2>2 DEF ListInv
    <3> QED
      BY <1>4, <3>1
  <2> QED
    BY <1>3, <2>1, <2>2 DEF ListInv
<1>6. DuplicatesInv(subworlds, inProgress)'
  <2>1. ASSUME NEW r \in inProgress
        PROVE  /\ r.world[1] \in known \cap Refreshable
               /\ r.refreshed[1] = r.world[1]
               /\ \A k \in 1..Len(subworlds') :
                    subworlds'[k].world[1] = r.world[1] =>
                      /\ subworlds'[k].world = r.world
                      /\ subworlds'[k].refreshed = r.refreshed
                      /\ ~subworlds'[k].ready
    <3>1. DuplicatesInv(subworlds, inProgress)
      BY DEF WorldsInv
    <3> QED
      BY <1>3, <1>4, <2>1, <3>1 DEF DuplicatesInv
  <2> QED
    BY <1>1, <2>1 DEF DuplicatesInv
<1>7. 0 \in 0..(Len(subworlds') + 1)
  BY <1>2, <1>3
<1> QED
  BY <1>1, <1>5, <1>6, <1>7 DEF WorldsInv

\* A step of the loop of the refresh function.
LEMMA LoopKeepsWorlds == ASSUME WorldsInv, Loop PROVE WorldsInv'
<1>1. CASE SkipSubworld
  <2> DEFINE infos == Ready(subworlds, loop)
  <2>1. /\ loop \in 1..Len(subworlds) /\ subworlds[loop].world[1] \notin Refreshable
        /\ subworlds' = infos /\ loop' = loop + 1
        /\ UNCHANGED <<count, known, refreshing, aborted, inProgress>>
    BY <1>1 DEF SkipSubworld
  <2>2. ListInv(subworlds)
    BY DEF WorldsInv
  <2>3. /\ ListInv(infos) /\ Len(infos) = Len(subworlds)
        /\ \A j \in 1..Len(infos) : infos[j].world = subworlds[j].world
        /\ \A j \in 1..Len(infos) : j # loop => infos[j] = subworlds[j]
    BY <2>1, <2>2, ReadyKeeps
  <2> HIDE DEF infos
  <2>4. DuplicatesInv(infos, inProgress) /\ inProgress \subseteq RefreshInfo
    BY <2>1, <2>3 DEF WorldsInv, DuplicatesInv
  <2> QED
    BY <2>1, <2>3, <2>4, WaitingKeeps
<1>2. CASE RefreshSubworldLater
  <2> DEFINE r == [world |-> subworlds[loop].world, refreshed |-> WithDuplicate[loop].refreshed]
  <2>1. /\ loop \in 1..Len(subworlds) /\ subworlds[loop].world[1] \in Refreshable
        /\ subworlds' = WithDuplicate /\ inProgress' = inProgress \cup {r} /\ loop' = loop + 1
        /\ UNCHANGED <<count, known, refreshing, aborted>>
    BY <1>2 DEF RefreshSubworldLater
  <2>2. /\ ListInv(WithDuplicate) /\ Len(WithDuplicate) = Len(subworlds)
        /\ \A j \in 1..Len(subworlds) :
             /\ WithDuplicate[j].world = subworlds[j].world
             /\ j # loop => WithDuplicate[j] = subworlds[j]
        /\ ~WithDuplicate[loop].ready
        /\ IsRefreshed(WithDuplicate[loop])
        /\ \A t \in inProgress : t.world[1] # subworlds[loop].world[1]
    BY <2>1, WithDuplicateKeeps
  <2>3. ListInv(subworlds) /\ subworlds[loop] \in SubworldInfo
    BY <2>1 DEF WorldsInv, ListInv
  <2>4. r \in RefreshInfo /\ r.world[1] \in known \cap Refreshable
    <3>1. WithDuplicate[loop] \in SubworldInfo
      BY <2>1, <2>2 DEF ListInv
    <3>2. WithDuplicate[loop].refreshed \in World
      BY <2>2, <3>1 DEF SubworldInfo, IsRefreshed
    <3> QED
      BY <2>1, <2>3, <3>2 DEF ListInv, InfoInv, SubworldInfo, RefreshInfo
  <2>5. DuplicatesInv(WithDuplicate, inProgress \cup {r})
    <3>1. ASSUME NEW j \in 1..Len(subworlds), WithDuplicate[j].world[1] = r.world[1]
          PROVE  j = loop
      BY <2>1, <2>2, <2>3, <3>1 DEF ListInv
    <3>2. DuplicatesInv(WithDuplicate, {r})
      <4>1. r.refreshed[1] = r.world[1]
        BY <2>1, WithDuplicateKeeps
      <4> QED
        BY <2>1, <2>2, <2>4, <3>1, <4>1 DEF DuplicatesInv
    <3>3. DuplicatesInv(WithDuplicate, inProgress)
      BY <2>1, <2>2 DEF WorldsInv, DuplicatesInv
    <3> QED
      BY <3>2, <3>3 DEF DuplicatesInv
  <2>6. inProgress' \subseteq RefreshInfo
    BY <2>1, <2>4 DEF WorldsInv
  <2> HIDE DEF r
  <2> QED
    BY <2>1, <2>2, <2>5, <2>6, WaitingKeeps
<1>3. CASE RefreshSubworldAtOnce
  <2> DEFINE infos == Ready(WithDuplicate, loop)
  <2>1. /\ loop \in 1..Len(subworlds) /\ subworlds[loop].world[1] \in Refreshable
        /\ \/ RefreshedCutsOver(infos) /\ loop' = 0
           \/ RefreshedWaits(infos) /\ loop' = loop + 1
        /\ UNCHANGED <<count, known, aborted, inProgress>>
    BY <1>3, RefreshAssumption DEF RefreshSubworldAtOnce
  <2>2. /\ ListInv(infos) /\ DuplicatesInv(infos, inProgress) /\ Len(infos) = Len(subworlds)
        /\ \A j \in 1..Len(infos) : j # loop => infos[j] = subworlds[j]
    BY <2>1, AtOnceKeeps
  <2> HIDE DEF infos
  <2>3. CASE RefreshedCutsOver(infos) /\ loop' = 0
    <3>1. \A r \in inProgress : \A j \in 1..Len(infos) : infos[j].world[1] # r.world[1]
      BY <2>2, <2>3, ReadyOnesAreThrough DEF RefreshedCutsOver, CutsOver
    <3> QED
      BY <2>1, <2>2, <2>3, <3>1, CutOverKeeps DEF RefreshedCutsOver, CutsOver, DoCutOver
  <2>4. CASE RefreshedWaits(infos) /\ loop' = loop + 1
    <3>1. inProgress' \subseteq RefreshInfo
      BY <2>1 DEF WorldsInv
    <3> QED
      BY <2>1, <2>2, <2>4, <3>1, WaitingKeeps DEF RefreshedWaits
  <2> QED
    BY <2>1, <2>3, <2>4
<1>4. CASE EndRefresh
  <2>1. loop' = 0 /\ UNCHANGED <<count, known, aborted, inProgress>>
    BY <1>4 DEF EndRefresh
  <2>2. /\ ListInv(subworlds) /\ DuplicatesInv(subworlds, inProgress)
        /\ inProgress \subseteq RefreshInfo
    BY DEF WorldsInv
  <2>3. CASE CutsOver(subworlds) /\ DoCutOver(subworlds)
    <3>1. \A r \in inProgress : \A j \in 1..Len(subworlds) : subworlds[j].world[1] # r.world[1]
      BY <2>2, <2>3, ReadyOnesAreThrough DEF CutsOver
    <3> QED
      BY <2>1, <2>2, <2>3, <3>1, CutOverKeeps DEF CutsOver, DoCutOver
  <2>4. CASE UNCHANGED <<subworlds, refreshing>>
    BY <2>1, <2>2, <2>4, WaitingKeeps
  <2> QED
    BY <1>4, <2>3, <2>4 DEF EndRefresh
<1> QED
  BY <1>1, <1>2, <1>3, <1>4 DEF Loop

\* A duplicate has been refreshed.
LEMMA RefreshedCbKeepsWorlds ==
  ASSUME WorldsInv, NEW r \in inProgress, RefreshedCb(r) PROVE WorldsInv'
<1>1. PICK i \in 1..Len(subworlds) :
        /\ subworlds[i].world = r.world
        /\ RefreshedCutsOver(Ready(subworlds, i)) \/ RefreshedWaits(Ready(subworlds, i))
  BY DEF RefreshedCb, Places
<1> DEFINE infos == Ready(subworlds, i)
<1>2. /\ inProgress' = inProgress \ {r} /\ loop = 0 /\ loop' = 0
      /\ UNCHANGED <<count, known, aborted>>
  BY DEF RefreshedCb
<1>3. ListInv(infos) /\ DuplicatesInv(infos, inProgress') /\ Len(infos) = Len(subworlds)
  <2>0. infos = Ready(subworlds, i)
    OBVIOUS
  <2>1. ListInv(infos) /\ DuplicatesInv(infos, inProgress \ {r}) /\ Len(infos) = Len(subworlds)
    <3> HIDE DEF infos
    <3> QED
      BY <1>1, <2>0, RefreshedKeeps
  <2> HIDE DEF infos
  <2> QED
    BY <1>2, <2>1
<1> HIDE DEF infos
<1>4. CASE RefreshedCutsOver(infos)
  <2>1. \A t \in inProgress' : \A j \in 1..Len(infos) : infos[j].world[1] # t.world[1]
    BY <1>3, <1>4, ReadyOnesAreThrough DEF RefreshedCutsOver, CutsOver
  <2> QED
    BY <1>2, <1>3, <1>4, <2>1, CutOverKeeps DEF RefreshedCutsOver, CutsOver, DoCutOver
<1>5. CASE RefreshedWaits(infos)
  <2>1. inProgress' \subseteq RefreshInfo
    BY <1>2 DEF WorldsInv
  <2> QED
    BY <1>2, <1>3, <1>5, <2>1, WaitingKeeps DEF RefreshedWaits
<1> QED
  BY <1>1, <1>4, <1>5 DEF infos

\* Every step keeps the invariant.
LEMMA WorldsStep == ASSUME WorldsInv, [Next]_vars PROVE WorldsInv'
<1>1. CASE RefreshAgain
  BY <1>1 DEF WorldsInv, ListInv, InfoInv, DuplicatesInv, IsRefreshed, RefreshAgain
<1>2. ASSUME NEW r, RefreshedAborts(r) PROVE WorldsInv'
  BY <1>2 DEF WorldsInv, ListInv, InfoInv, DuplicatesInv, IsRefreshed, RefreshedAborts
<1>3. CASE UNCHANGED vars
  BY <1>3 DEF WorldsInv, ListInv, InfoInv, DuplicatesInv, IsRefreshed, vars
<1> QED
  BY <1>1, <1>2, <1>3, BeginKeepsWorlds, LoopKeepsWorlds, RefreshedCbKeepsWorlds,
     MountKeepsWorlds, RemoveKeepsWorlds DEF Next

\* At first no subworld is refreshed.
LEMMA InitWorlds == Init => WorldsInv
<1> SUFFICES ASSUME Init PROVE WorldsInv
  OBVIOUS
<1>1. PICK list \in Mounted :
        /\ subworlds = [i \in 1..Len(list) |-> SubworldNew(<<list[i], 0>>)]
        /\ known = Range(list)
  BY DEF Init
<1>2. /\ refreshing = FALSE /\ count = 0 /\ inProgress = {} /\ loop = 0 /\ aborted = FALSE
  BY DEF Init
<1>3. list \in Seq(Service) /\ IsInjective(list) /\ Len(list) \in Nat
  BY RefreshAssumption
<1>4. ASSUME NEW i \in 1..Len(list)
      PROVE  /\ subworlds[i] = SubworldNew(<<list[i], 0>>) /\ subworlds[i] \in SubworldInfo
             /\ subworlds[i].world = <<list[i], 0>> /\ InfoInv(subworlds[i])
  <2>1. list[i] \in Service /\ list[i] \in known
    BY <1>1, <1>3 DEF Range
  <2>2. <<list[i], 0>> \in World
    BY <2>1, RefreshAssumption DEF World
  <2>3. subworlds[i] = [world |-> <<list[i], 0>>, refreshed |-> NONE, ready |-> FALSE]
    BY <1>1 DEF SubworldNew
  <2> QED
    BY <1>2, <2>1, <2>2, <2>3 DEF SubworldNew, SubworldInfo, InfoInv, IsRefreshed
<1>5. subworlds \in Seq(SubworldInfo) /\ Len(subworlds) = Len(list)
  BY <1>1, <1>3, <1>4
<1>6. ListInv(subworlds)
  <2>1. \A i, j \in 1..Len(list) : list[i] = list[j] => i = j
    BY <1>3 DEF IsInjective
  <2>2. \A i, j \in 1..Len(list) : subworlds[i].world[1] = subworlds[j].world[1] => i = j
    <3>1. ASSUME NEW i \in 1..Len(list) PROVE subworlds[i].world[1] = list[i]
      <4>1. subworlds[i].world = <<list[i], 0>>
        BY <1>4
      <4> QED
        BY <4>1
    <3> QED
      BY <2>1, <3>1
  <2> QED
    BY <1>4, <1>5, <2>2 DEF ListInv
<1>7. known \subseteq Service /\ 0 \in 0..(Len(subworlds) + 1) /\ 0 \in 0..MaxRefreshes
  BY <1>1, <1>3, <1>5, RefreshAssumption DEF Range
<1> QED
  BY <1>2, <1>6, <1>7 DEF WorldsInv, DuplicatesInv

\* The invariant holds in every state of every behaviour.
LEMMA WorldsInvariant == Spec => []WorldsInv
BY InitWorlds, WorldsStep, PTL DEF Spec

\* The types of the state (TypeOK): what refreshed_cb and the loop of the refresh
\* function make of the list is a list of SubworldInfos, and the loop stays in it.
THEOREM RefreshTypeCorrect == Spec => []TypeOK
<1>1. WorldsInv /\ PendingsInv => TypeOK
  BY DEF WorldsInv, ListInv, PendingsInv, PendingsType, TypeOK
<1> QED
  BY <1>1, WorldsInvariant, PendingsInvariant, PTL

\* No world is shown while it is still being loaded (ShowsLoadedWorlds): a
\* duplicate takes the place of its original when it is ready, and what is
\* mounted and removed meanwhile, in however many refreshes, changes nothing in
\* that.
THEOREM LoadedWorldsAreShown == Spec => []ShowsLoadedWorlds
<1>1. WorldsInv => ShowsLoadedWorlds
  <2> SUFFICES ASSUME WorldsInv, NEW i \in 1..Len(subworlds), NEW r \in inProgress,
                      subworlds[i].world = r.refreshed
               PROVE  FALSE
    BY DEF ShowsLoadedWorlds
  <2>1. subworlds[i] \in SubworldInfo /\ InfoInv(subworlds[i]) /\ r \in RefreshInfo
    BY DEF WorldsInv, ListInv
  <2>2. r.refreshed[1] = r.world[1]
    BY DEF WorldsInv, DuplicatesInv
  <2>3. subworlds[i].world = r.world /\ subworlds[i].refreshed = r.refreshed
    BY <2>2 DEF WorldsInv, DuplicatesInv
  <2>4. IsRefreshed(subworlds[i])
    <3>1. r.refreshed \in Service \X Nat
      BY <2>1 DEF RefreshInfo, World
    <3> QED
      BY <2>3, <3>1, RefreshAssumption DEF IsRefreshed
  <2>5. count \in Nat /\ subworlds[i].world[2] < count /\ subworlds[i].refreshed[2] = count
    BY <2>1, <2>4 DEF InfoInv, WorldsInv
  <2>6. subworlds[i].world = subworlds[i].refreshed
    BY <2>3
  <2>7. subworlds[i].world[2] = count
    BY <2>5, <2>6
  <2> QED
    BY <2>5, <2>7
<1> QED
  BY <1>1, WorldsInvariant, PTL

-----------------------------------------------------------------------------
\* The refresh is atomic.

Shown == {subworlds[i].world : i \in 1..Len(subworlds)}

\* In a list that is ready, what is switched over is what is renewed.
LEMMA SwitchedOverIsRenewed ==
  ASSUME NEW info, InfoInv(info), info.ready
  PROVE  SwitchedOver(info).world = Atomic!Renewed(info.world)
<1>1. CASE IsRefreshed(info)
  BY <1>1 DEF SwitchedOver, SubworldNew, InfoInv, Atomic!Renewed
<1>2. CASE ~IsRefreshed(info)
  BY <1>2 DEF SwitchedOver, InfoInv, Atomic!Renewed
<1> QED
  BY <1>1, <1>2

\* To cut over, with a list that shows what was shown, ends the refresh.
LEMMA CutOverFinishes ==
  ASSUME WorldsInv, NEW infos, ListInv(infos), Len(infos) = Len(subworlds),
         \A j \in 1..Len(infos) : infos[j].world = subworlds[j].world,
         CutsOver(infos), DoCutOver(infos), count' = count
  PROVE  Atomic!Finish
<1>1. PICK order \in [1..Len(infos) -> 1..Len(infos)] :
        /\ \A i \in 1..Len(infos) : \E k \in 1..Len(infos) : order[k] = i
        /\ CutOver(infos) = [k \in 1..Len(infos) |-> SwitchedOver(infos[order[k]])]
  <2>1. Len(infos) \in Nat
    BY DEF ListInv
  <2> QED
    BY <2>1, CutOverOrder
<1>2. ASSUME NEW j \in 1..Len(infos)
      PROVE  SwitchedOver(infos[j]).world = Atomic!Renewed(subworlds[j].world)
  BY SwitchedOverIsRenewed DEF ListInv, CutsOver, AllReady
<1>3. /\ Len(subworlds') = Len(infos)
      /\ \A k \in 1..Len(infos) : subworlds'[k].world = Atomic!Renewed(subworlds[order[k]].world)
  <2>1. subworlds' = CutOver(infos) /\ Len(infos) \in Nat
    BY DEF DoCutOver, ListInv
  <2>2. Len(subworlds') = Len(infos)
    BY <1>1, <2>1
  <2>3. ASSUME NEW k \in 1..Len(infos)
        PROVE  subworlds'[k].world = Atomic!Renewed(subworlds[order[k]].world)
    <3>1. subworlds'[k] = SwitchedOver(infos[order[k]]) /\ order[k] \in 1..Len(infos)
      BY <1>1, <2>1
    <3> QED
      BY <1>2, <3>1
  <2> QED
    BY <2>2, <2>3
<1>4. Shown' = {Atomic!Renewed(w) : w \in Shown}
  <2>1. ASSUME NEW k \in 1..Len(subworlds')
        PROVE  \E w \in Shown : subworlds'[k].world = Atomic!Renewed(w)
    <3>1. subworlds[order[k]].world \in Shown
      BY <1>1, <1>3 DEF Shown
    <3> QED
      BY <1>3, <3>1
  <2>2. ASSUME NEW j \in 1..Len(subworlds)
        PROVE  \E k \in 1..Len(subworlds') : subworlds'[k].world = Atomic!Renewed(subworlds[j].world)
    <3>1. PICK k \in 1..Len(infos) : order[k] = j
      BY <1>1
    <3> QED
      BY <1>3, <3>1
  <2>3. Shown' \subseteq {Atomic!Renewed(w) : w \in Shown}
    <3>1. Shown' = {subworlds'[k].world : k \in 1..Len(subworlds')}
      BY DEF Shown
    <3> QED
      BY <2>1, <3>1
  <2>4. \A w \in Shown : Atomic!Renewed(w) \in Shown'
    BY <2>2 DEF Shown
  <2> QED
    BY <2>3, <2>4
<1> QED
  BY <1>4 DEF Shown, Atomic!Finish, CutsOver, DoCutOver

\* Any other change of the list that leaves the worlds in it alone is not seen.
LEMMA NothingIsSeen ==
  ASSUME Len(subworlds') = Len(subworlds),
         \A j \in 1..Len(subworlds) : subworlds'[j].world = subworlds[j].world,
         refreshing' = refreshing, count' = count
  PROVE  UNCHANGED Atomic!vars
<1>1. Shown' = Shown
  BY DEF Shown
<1> QED
  BY <1>1 DEF Shown, Atomic!vars

\* A step of the loop of the refresh function ends the refresh or is not seen.
LEMMA LoopRefines == ASSUME WorldsInv, Loop PROVE Atomic!Finish \/ UNCHANGED Atomic!vars
<1>1. CASE SkipSubworld
  <2>1. /\ loop \in 1..Len(subworlds) /\ subworlds[loop].world[1] \notin Refreshable
        /\ subworlds' = Ready(subworlds, loop) /\ UNCHANGED <<count, refreshing>>
    BY <1>1 DEF SkipSubworld
  <2>2. ListInv(subworlds)
    BY DEF WorldsInv
  <2> QED
    BY <2>1, <2>2, ReadyKeeps, NothingIsSeen
<1>2. CASE RefreshSubworldLater
  <2>1. /\ loop \in 1..Len(subworlds) /\ subworlds[loop].world[1] \in Refreshable
        /\ subworlds' = WithDuplicate /\ UNCHANGED <<count, refreshing>>
    BY <1>2 DEF RefreshSubworldLater
  <2> QED
    BY <2>1, WithDuplicateKeeps, NothingIsSeen
<1>3. CASE RefreshSubworldAtOnce
  <2> DEFINE infos == Ready(WithDuplicate, loop)
  <2>1. /\ loop \in 1..Len(subworlds) /\ subworlds[loop].world[1] \in Refreshable
        /\ RefreshedCutsOver(infos) \/ RefreshedWaits(infos)
        /\ count' = count
    BY <1>3, RefreshAssumption DEF RefreshSubworldAtOnce
  <2>2. /\ ListInv(infos) /\ Len(infos) = Len(subworlds)
        /\ \A j \in 1..Len(infos) : infos[j].world = subworlds[j].world
    BY <2>1, AtOnceKeeps
  <2> HIDE DEF infos
  <2>3. CASE RefreshedCutsOver(infos)
    BY <2>1, <2>2, <2>3, CutOverFinishes DEF RefreshedCutsOver
  <2>4. CASE RefreshedWaits(infos)
    BY <2>1, <2>2, <2>4, NothingIsSeen DEF RefreshedWaits
  <2> QED
    BY <2>1, <2>3, <2>4
<1>4. CASE EndRefresh
  <2>1. count' = count /\ ListInv(subworlds)
    BY <1>4 DEF EndRefresh, WorldsInv
  <2>2. CASE CutsOver(subworlds) /\ DoCutOver(subworlds)
    BY <2>1, <2>2, CutOverFinishes
  <2>3. CASE UNCHANGED <<subworlds, refreshing>>
    BY <2>1, <2>3, NothingIsSeen
  <2> QED
    BY <1>4, <2>2, <2>3 DEF EndRefresh
<1> QED
  BY <1>1, <1>2, <1>3, <1>4 DEF Loop

LEMMA RefreshedCbRefines ==
  ASSUME WorldsInv, NEW r \in inProgress, RefreshedCb(r)
  PROVE  Atomic!Finish \/ UNCHANGED Atomic!vars
<1>1. PICK i \in 1..Len(subworlds) :
        /\ subworlds[i].world = r.world
        /\ RefreshedCutsOver(Ready(subworlds, i)) \/ RefreshedWaits(Ready(subworlds, i))
  BY DEF RefreshedCb, Places
<1> DEFINE infos == Ready(subworlds, i)
<1>2. infos = Ready(subworlds, i) /\ count' = count
  BY DEF RefreshedCb
<1>3. RefreshedCutsOver(infos) \/ RefreshedWaits(infos)
  BY <1>1
<1> HIDE DEF infos
<1>4. /\ ListInv(infos) /\ Len(infos) = Len(subworlds)
      /\ \A j \in 1..Len(infos) : infos[j].world = subworlds[j].world
  <2>1. subworlds[i].world = r.world
    BY <1>1
  <2>2. /\ ListInv(infos)
        /\ DuplicatesInv(infos, inProgress \ {r})
        /\ Len(infos) = Len(subworlds)
        /\ \A j \in 1..Len(subworlds) : infos[j].world = subworlds[j].world
    BY <2>1, RefreshedKeeps DEF infos
  <2> QED
    BY <2>2
<1>5. CASE RefreshedCutsOver(infos)
  BY <1>2, <1>4, <1>5, CutOverFinishes DEF RefreshedCutsOver
<1>6. CASE RefreshedWaits(infos)
  BY <1>2, <1>4, <1>6, NothingIsSeen DEF RefreshedWaits
<1> QED
  BY <1>3, <1>5, <1>6

LEMMA MountRefines ==
  ASSUME WorldsInv, NEW s \in Service, MountService(s) PROVE Atomic!Mount
<1> DEFINE new == SubworldNew(<<s, 0>>)
<1>1. /\ subworlds' = Append(subworlds, new)
      /\ refreshing' = refreshing /\ count' = count
      /\ subworlds \in Seq(SubworldInfo) /\ Len(subworlds) \in Nat
  BY DEF MountService, WorldsInv, ListInv
<1>2. new.world = <<s, 0>>
  BY DEF SubworldNew
<1> HIDE DEF new
<1>3. /\ Len(subworlds') = Len(subworlds) + 1
      /\ \A j \in 1..Len(subworlds) : subworlds'[j] = subworlds[j]
      /\ subworlds'[Len(subworlds) + 1].world = <<s, 0>>
  BY <1>1, <1>2
<1>4. 1..Len(subworlds') = 1..Len(subworlds) \cup {Len(subworlds) + 1}
  BY <1>1, <1>3
<1>5. Shown' = Shown \cup {<<s, 0>>}
  BY <1>3, <1>4 DEF Shown
<1> QED
  BY <1>1, <1>5 DEF Atomic!Mount, Shown

LEMMA RemoveRefines ==
  ASSUME WorldsInv, NEW i \in 1..Len(subworlds), RemoveSubworld(i) PROVE Atomic!Unmount
<1>1. /\ subworlds' = RemoveAt(subworlds, i) /\ refreshing' = refreshing /\ count' = count
      /\ ListInv(subworlds) /\ subworlds \in Seq(SubworldInfo) /\ Len(subworlds) \in Nat
  BY DEF RemoveSubworld, WorldsInv, ListInv
<1>2. /\ Len(subworlds') = Len(subworlds) - 1
      /\ \A k \in 1..Len(subworlds') : subworlds'[k] = subworlds[IF k < i THEN k ELSE k + 1]
  BY <1>1, WithoutOne
<1>3. \A j \in 1..Len(subworlds) : subworlds[j].world = subworlds[i].world <=> j = i
  BY <1>1 DEF ListInv
<1>4. Shown' = Shown \ {subworlds[i].world}
  <2>1. ASSUME NEW k \in 1..Len(subworlds')
        PROVE  \E j \in 1..Len(subworlds) : j # i /\ subworlds'[k] = subworlds[j]
    <3>1. /\ (IF k < i THEN k ELSE k + 1) \in 1..Len(subworlds)
          /\ (IF k < i THEN k ELSE k + 1) # i
      BY <1>1, <1>2
    <3> QED
      BY <1>2, <3>1
  <2>2. ASSUME NEW j \in 1..Len(subworlds), j # i
        PROVE  \E k \in 1..Len(subworlds') : subworlds'[k] = subworlds[j]
    <3> DEFINE k == IF j < i THEN j ELSE j - 1
    <3>1. k \in 1..Len(subworlds') /\ (IF k < i THEN k ELSE k + 1) = j
      BY <1>1, <1>2, <2>2
    <3> HIDE DEF k
    <3> QED
      BY <1>2, <3>1
  <2>3. Shown' \subseteq Shown \ {subworlds[i].world}
    <3>1. Shown' = {subworlds'[k].world : k \in 1..Len(subworlds')}
      BY DEF Shown
    <3> QED
      BY <1>3, <2>1, <3>1 DEF Shown
  <2>4. ASSUME NEW w \in Shown, w # subworlds[i].world PROVE w \in Shown'
    BY <2>2, <2>4 DEF Shown
  <2> QED
    BY <2>3, <2>4
<1>5. subworlds[i].world \in Shown
  BY DEF Shown
<1> QED
  BY <1>1, <1>4, <1>5 DEF Atomic!Unmount, Shown

\* A refresh of the multi world is seen as one step (ImplementsAtomicRefresh):
\* until it ends the old worlds are shown, and then for each that can be
\* refreshed the copy made by this refresh, whatever is mounted, removed and
\* refreshed meanwhile.
THEOREM RefreshIsAtomic == Spec => ImplementsAtomicRefresh
<1>1. Init => Atomic!Init
  <2> SUFFICES ASSUME Init PROVE Atomic!Init
    OBVIOUS
  <2>1. PICK list \in Mounted :
          subworlds = [i \in 1..Len(list) |-> SubworldNew(<<list[i], 0>>)]
    BY DEF Init
  <2>2. list \in Seq(Service) /\ Len(list) \in Nat
    BY RefreshAssumption
  <2>3. /\ Len(subworlds) = Len(list)
        /\ \A i \in 1..Len(list) : subworlds[i].world = <<list[i], 0>>
    BY <2>1, <2>2 DEF SubworldNew
  <2>4. ASSUME NEW i \in 1..Len(subworlds) PROVE subworlds[i].world \in Service \X {0}
    <3>1. list[i] \in Service /\ subworlds[i].world = <<list[i], 0>>
      BY <2>2, <2>3
    <3> QED
      BY <3>1
  <2> QED
    BY <2>4 DEF Init, Atomic!Init
<1>2. WorldsInv /\ [Next]_vars => [Atomic!Next]_(Atomic!vars)
  <2> SUFFICES ASSUME WorldsInv, [Next]_vars PROVE Atomic!Next \/ UNCHANGED Atomic!vars
    BY DEF Atomic!vars
  <2>1. CASE BeginRefresh
    <3>1. subworlds' = subworlds /\ ~refreshing /\ refreshing' = TRUE /\ count' = count + 1
      BY <2>1 DEF BeginRefresh
    <3> QED
      BY <3>1 DEF Atomic!Begin, Atomic!Next
  <2>2. CASE RefreshAgain
    BY <2>2, NothingIsSeen DEF RefreshAgain
  <2>3. CASE Loop
    BY <2>3, LoopRefines DEF Atomic!Next
  <2>4. ASSUME NEW r \in inProgress, RefreshedCb(r) \/ RefreshedAborts(r)
        PROVE  Atomic!Next \/ UNCHANGED Atomic!vars
    <3>1. CASE RefreshedCb(r)
      BY <3>1, RefreshedCbRefines DEF Atomic!Next
    <3>2. CASE RefreshedAborts(r)
      BY <3>2, NothingIsSeen DEF RefreshedAborts
    <3> QED
      BY <2>4, <3>1, <3>2
  <2>5. ASSUME NEW s \in Service, MountService(s) PROVE Atomic!Next
    BY <2>5, MountRefines DEF Atomic!Next
  <2>6. ASSUME NEW i \in 1..Len(subworlds), RemoveSubworld(i) PROVE Atomic!Next
    BY <2>6, RemoveRefines DEF Atomic!Next
  <2>7. CASE UNCHANGED vars
    BY <2>7, NothingIsSeen DEF vars
  <2> QED
    BY <2>1, <2>2, <2>3, <2>4, <2>5, <2>6, <2>7 DEF Next
<1> QED
  BY <1>1, <1>2, WorldsInvariant, PTL DEF Spec, ImplementsAtomicRefresh, Atomic!Spec

-----------------------------------------------------------------------------
(* Synthetic worlds *)

Calls == {"assemble", "load", "duplicate", "transact", "else"}

\* While a world writes its file nothing vouches for what is in it, and what it
\* writes is what the transaction was to lead to.  A world that is never
\* replaced by a duplicate knows its file.
SyntheticInv ==
  /\ Synthetic!TypeOK
  /\ did \in [call : Calls, ok : BOOLEAN, wanted : SUBSET SyntheticPackage]
  /\ Synthetic!SavedIsShown
  /\ step = "writing" => ~agree /\ did.wanted = synthetic.packages

AloneInv ==
  /\ synthetic.mounted => synthetic.named
  /\ Synthetic!TransactionsAreSaved

\* Without a multi world the steps are the same, but for the duplicates.
LEMMA AloneStep ==
  Alone!Next =>
    \/ Synthetic!Assemble \/ Synthetic!Unmount \/ Synthetic!Refresh \/ Synthetic!Transact
    \/ Synthetic!Write \/ Synthetic!Crash \/ Synthetic!Edit
BY DEF Alone!Next, Alone!Assemble, Alone!Unmount, Alone!Refresh, Alone!RefreshOfMulti,
       Alone!Transact, Alone!Write, Alone!Crash, Alone!Edit, Alone!Created, Alone!ErrorFlag,
       Alone!LoadSucceeds, Alone!Loaded, Alone!NoWorld, Alone!Idle, Alone!Changed, Alone!Dumped,
       Alone!Files, Alone!File, Alone!Absent, Alone!Broken,
       Synthetic!Assemble, Synthetic!Unmount, Synthetic!Refresh,
       Synthetic!Transact, Synthetic!Write, Synthetic!Crash, Synthetic!Edit, Synthetic!Created,
       Synthetic!ErrorFlag, Synthetic!LoadSucceeds, Synthetic!Loaded, Synthetic!NoWorld,
       Synthetic!Idle, Synthetic!Changed, Synthetic!Dumped, Synthetic!Files, Synthetic!File,
       Synthetic!Absent, Synthetic!Broken


\* What is to be shown of a step.
LEMMA SyntheticAfter ==
  ASSUME file' \in Synthetic!Files, step' \in {"idle", "writing"}, agree' \in BOOLEAN,
         synthetic' \in [mounted : BOOLEAN, named : BOOLEAN, packages : SUBSET SyntheticPackage],
         did' \in [call : Calls, ok : BOOLEAN, wanted : SUBSET SyntheticPackage],
         synthetic'.mounted /\ synthetic'.named /\ agree' => file' = Synthetic!File(synthetic'.packages),
         step' = "writing" => ~agree' /\ did'.wanted = synthetic'.packages
  PROVE  SyntheticInv'
<1>1. Synthetic!TypeOK'
  BY DEF Synthetic!TypeOK, Synthetic!Files, Synthetic!File, Synthetic!Absent, Synthetic!Broken, Calls
<1>2. Synthetic!SavedIsShown'
  BY DEF Synthetic!SavedIsShown, Synthetic!File
<1> QED
  BY <1>1, <1>2 DEF SyntheticInv

\* What is shown comes from the file as it is, or goes into it as it is.
LEMMA SyntheticKeeps ==
  ASSUME SyntheticInv, Synthetic!Next PROVE SyntheticInv'
<1>1. /\ file \in Synthetic!Files /\ agree \in BOOLEAN /\ step \in {"idle", "writing"}
      /\ synthetic \in [mounted : BOOLEAN, named : BOOLEAN, packages : SUBSET SyntheticPackage]
      /\ did \in [call : Calls, ok : BOOLEAN, wanted : SUBSET SyntheticPackage]
      /\ synthetic.mounted /\ synthetic.named /\ agree => file = Synthetic!File(synthetic.packages)
      /\ step = "writing" => ~agree /\ did.wanted = synthetic.packages
  BY DEF SyntheticInv, Synthetic!TypeOK, Synthetic!SavedIsShown, Calls
<1>2. /\ file.packages \in SUBSET SyntheticPackage
      /\ file.kind = "xml" => file = Synthetic!File(file.packages)
      /\ Synthetic!Broken \in Synthetic!Files
      /\ \A S \in SUBSET SyntheticPackage : Synthetic!File(S) \in Synthetic!Files
  <2>1. CASE file = Synthetic!Absent \/ file = Synthetic!Broken
    BY <2>1 DEF Synthetic!Files, Synthetic!Absent, Synthetic!Broken
  <2>2. CASE \E S \in SUBSET SyntheticPackage : file = Synthetic!File(S)
    BY <2>2 DEF Synthetic!Files, Synthetic!File
  <2> QED
    BY <1>1, <2>1, <2>2 DEF Synthetic!Files
<1>3. CASE Synthetic!Assemble
  <2>1. /\ synthetic' = [mounted |-> TRUE, named |-> TRUE,
                         packages |-> IF file.kind = "xml" THEN file.packages ELSE {}]
        /\ agree' = (file.kind = "xml")
        /\ did' = [call |-> "assemble", ok |-> TRUE, wanted |-> {}]
        /\ file' = file /\ step' = "idle"
    BY <1>3 DEF Synthetic!Assemble, Synthetic!Created, Synthetic!Loaded
  <2> QED
    BY <1>1, <1>2, <2>1, SyntheticAfter DEF Calls
<1>4. CASE Synthetic!Unmount \/ Synthetic!Crash
  <2>1. /\ synthetic' = [mounted |-> FALSE, named |-> FALSE, packages |-> {}]
        /\ agree' = FALSE /\ did' = [call |-> "else", ok |-> TRUE, wanted |-> {}]
        /\ file' = file /\ step' = "idle"
    BY <1>4 DEF Synthetic!Unmount, Synthetic!Crash, Synthetic!NoWorld, Synthetic!Idle
  <2> QED
    BY <1>1, <2>1, SyntheticAfter DEF Calls
<1>5. CASE Synthetic!Refresh
  <2>1. /\ synthetic' = [synthetic EXCEPT !.packages = Synthetic!Loaded(synthetic)]
        /\ agree' = IF synthetic.named /\ file.kind = "xml" THEN TRUE ELSE agree
        /\ did' = [call |-> "load", ok |-> TRUE, wanted |-> {}]
        /\ file' = file /\ step' = "idle"
    BY <1>5 DEF Synthetic!Refresh, Synthetic!Idle
  <2>2. Synthetic!Loaded(synthetic) =
          IF synthetic.named /\ file.kind = "xml" THEN file.packages ELSE synthetic.packages
    BY DEF Synthetic!Loaded
  <2>3. /\ synthetic' \in [mounted : BOOLEAN, named : BOOLEAN, packages : SUBSET SyntheticPackage]
        /\ synthetic'.mounted = synthetic.mounted /\ synthetic'.named = synthetic.named
        /\ synthetic'.packages =
             IF synthetic.named /\ file.kind = "xml" THEN file.packages ELSE synthetic.packages
    BY <1>1, <1>2, <2>1, <2>2
  <2> QED
    BY <1>1, <1>2, <2>1, <2>3, SyntheticAfter DEF Calls
<1>6. CASE Synthetic!RefreshOfMulti
  <2>1. /\ synthetic' = [mounted |-> TRUE, named |-> FALSE, packages |-> {}]
        /\ agree' = agree /\ did' = [call |-> "duplicate", ok |-> TRUE, wanted |-> {}]
        /\ file' = file /\ step' = "idle"
    BY <1>6 DEF Synthetic!RefreshOfMulti, Synthetic!Created, Synthetic!Loaded, Synthetic!Idle
  <2> QED
    BY <1>1, <2>1, SyntheticAfter DEF Calls
<1>7. CASE Synthetic!Transact
  <2>1. PICK installs \in SUBSET (SyntheticPackage \ synthetic.packages),
             removes \in SUBSET synthetic.packages, opens \in BOOLEAN :
          /\ synthetic' = [synthetic EXCEPT !.packages = Synthetic!Changed(installs, removes)]
          /\ step' = IF synthetic.named /\ opens THEN "writing" ELSE "idle"
          /\ file' = IF synthetic.named /\ opens THEN Synthetic!Broken ELSE file
          /\ agree' = FALSE
          /\ did' = [call |-> IF step' = "writing" THEN "else" ELSE "transact",
                     ok |-> (synthetic.named => opens),
                     wanted |-> Synthetic!Changed(installs, removes)]
    BY <1>7 DEF Synthetic!Transact
  <2>2. Synthetic!Changed(installs, removes) \in SUBSET SyntheticPackage
    BY <1>1 DEF Synthetic!Changed
  <2>3. synthetic' \in [mounted : BOOLEAN, named : BOOLEAN, packages : SUBSET SyntheticPackage]
    BY <1>1, <2>1, <2>2
  <2>4. did' \in [call : Calls, ok : BOOLEAN, wanted : SUBSET SyntheticPackage]
    <3>1. (synthetic.named => opens) \in BOOLEAN
      BY <1>1
    <3> QED
      BY <2>1, <2>2, <3>1 DEF Calls
  <2>5. did'.wanted = synthetic'.packages
    BY <1>1, <2>1
  <2> QED
    BY <1>1, <1>2, <2>1, <2>3, <2>4, <2>5, SyntheticAfter
<1>8. CASE Synthetic!Write
  <2>1. PICK written \in BOOLEAN :
          /\ step = "writing" /\ step' = "idle" /\ agree' = written /\ synthetic' = synthetic
          /\ file' = IF written THEN Synthetic!File(synthetic.packages) ELSE Synthetic!Broken
          /\ did' = [did EXCEPT !.call = "transact", !.ok = TRUE]
    BY <1>8 DEF Synthetic!Write, Synthetic!Dumped
  <2>2. did' \in [call : Calls, ok : BOOLEAN, wanted : SUBSET SyntheticPackage]
    BY <1>1, <2>1 DEF Calls
  <2>3. file' \in Synthetic!Files
    BY <1>1, <1>2, <2>1
  <2> QED
    BY <1>1, <2>1, <2>2, <2>3, SyntheticAfter
<1>9. CASE Synthetic!Edit
  <2>1. /\ file' \in Synthetic!Files /\ agree' = FALSE /\ synthetic' = synthetic /\ step' = "idle"
        /\ did' = [call |-> "else", ok |-> TRUE, wanted |-> {}]
    BY <1>9 DEF Synthetic!Edit, Synthetic!Idle
  <2> QED
    BY <1>1, <2>1, SyntheticAfter DEF Calls
<1> QED
  BY <1>3, <1>4, <1>5, <1>6, <1>7, <1>8, <1>9 DEF Synthetic!Next

\* A transaction that returns TRUE has opened the file, and has written it or cut it short.
LEMMA AloneKeeps ==
  ASSUME SyntheticInv, AloneInv, Alone!Next PROVE AloneInv'
<1> USE DEF AloneInv, Synthetic!TransactionsAreSaved
<1>1. CASE Synthetic!Write
  <2>1. did' = [did EXCEPT !.call = "transact", !.ok = TRUE] /\ did.wanted = synthetic.packages
    BY <1>1 DEF Synthetic!Write, SyntheticInv
  <2>2. did'.wanted = synthetic.packages
    BY <2>1 DEF SyntheticInv
  <2> QED
    BY <1>1, <2>2 DEF Synthetic!Write, Synthetic!Dumped
<1>2. CASE Synthetic!Transact
  <2>1. PICK installs \in SUBSET (SyntheticPackage \ synthetic.packages),
             removes \in SUBSET synthetic.packages, opens \in BOOLEAN :
          /\ synthetic.mounted
          /\ synthetic' = [synthetic EXCEPT !.packages = Synthetic!Changed(installs, removes)]
          /\ step' = IF synthetic.named /\ opens THEN "writing" ELSE "idle"
          /\ did' = [call |-> IF step' = "writing" THEN "else" ELSE "transact",
                     ok |-> (synthetic.named => opens),
                     wanted |-> Synthetic!Changed(installs, removes)]
    BY <1>2 DEF Synthetic!Transact
  <2>2. synthetic'.mounted = synthetic.mounted /\ synthetic'.named = synthetic.named
    BY <2>1 DEF SyntheticInv, Synthetic!TypeOK
  <2>3. did'.call = "else" \/ ~did'.ok
    BY <2>1
  <2> QED
    BY <2>2, <2>3
<1>3. CASE Synthetic!Refresh
  <2>1. synthetic'.mounted = synthetic.mounted /\ synthetic'.named = synthetic.named
    BY <1>3 DEF Synthetic!Refresh, SyntheticInv, Synthetic!TypeOK
  <2> QED
    BY <1>3, <2>1 DEF Synthetic!Refresh, Synthetic!Idle
<1>4. CASE Synthetic!Assemble
  BY <1>4 DEF Synthetic!Assemble, Synthetic!Created
<1>5. CASE Synthetic!Unmount \/ Synthetic!Crash \/ Synthetic!Edit
  BY <1>5 DEF Synthetic!Unmount, Synthetic!Crash, Synthetic!Edit, Synthetic!Idle, Synthetic!NoWorld
<1> QED
  BY <1>1, <1>2, <1>3, <1>4, <1>5, AloneStep


-----------------------------------------------------------------------------
(* Directories *)

\* Times go up: what the world has was read no later than what is being read,
\* and that no later than the directory was changed, of which two changes are
\* not in the same second.  Once the directory has been read, the packages are
\* those of it unless it has changed since its time was looked at.
LocalInv ==
  /\ LocalDir!TypeOK
  /\ local.mtime <= dir.mtime /\ dir.mtime <= clock
  /\ pc \in {"scan", "end"} => local.mtime < seen /\ seen <= dir.mtime
  /\ pc = "first" => local.mtime = 0
  /\ pc = "end" /\ dir.exists /\ seen = dir.mtime => local.packages = dir.files
  /\ LocalDir!SameTimeSamePackages
  /\ ~local.mounted => local.mtime = 0 /\ pc = "idle"

\* A directory that stays changes in no other way than one that does not.
LEMMA LocalDirStep == LocalDir!Next => Remade!Next
BY DEF LocalDir!Next, LocalDir!Tick, LocalDir!AddFile, LocalDir!RemoveFile, LocalDir!Vanish,
       LocalDir!Mount, LocalDir!Sync, LocalDir!Populate, LocalDir!StatFails, LocalDir!StatUnchanged,
       LocalDir!StatChanged, LocalDir!Scan, LocalDir!PopulateEnds, LocalDir!NewSecond,
       LocalDir!IsUnchanged, LocalDir!MtimeRead, LocalDir!Scanned,
       Remade!Next, Remade!Tick, Remade!AddFile, Remade!RemoveFile, Remade!Vanish,
       Remade!Mount, Remade!Sync, Remade!Populate, Remade!StatFails, Remade!StatUnchanged,
       Remade!StatChanged, Remade!Scan, Remade!PopulateEnds, Remade!NewSecond,
       Remade!IsUnchanged, Remade!MtimeRead, Remade!Scanned

Dirs   == [exists : BOOLEAN, mtime : 1..MaxClock, files : SUBSET LocalPackage]
Locals == [mounted : BOOLEAN, frozen : BOOLEAN, mtime : 0..MaxClock, packages : SUBSET LocalPackage]

\* A change of the directory gives it a time that nobody has seen.
LEMMA DirChangeKeeps ==
  ASSUME LocalInv, dir' \in Dirs, dir'.mtime = clock, dir.mtime < clock,
         clock' = clock, local' = local, pc' = pc, seen' = seen
  PROVE  LocalInv'
<1>1. /\ MaxClock \in Nat /\ clock \in 1..MaxClock /\ dir \in Dirs /\ local \in Locals
      /\ seen \in 0..MaxClock
  BY WorldsAssumption DEF LocalInv, LocalDir!TypeOK, LocalDir!LocalDirAssumption, Dirs, Locals
<1>2. local.mtime \in Nat /\ dir.mtime \in Nat
  BY <1>1 DEF Dirs, Locals
<1>3. LocalDir!TypeOK'
  BY <1>1 DEF LocalInv, LocalDir!TypeOK, Dirs
<1>4. LocalDir!SameTimeSamePackages'
  BY <1>1, <1>2 DEF LocalInv, LocalDir!SameTimeSamePackages
<1> QED
  BY <1>1, <1>2, <1>3, <1>4 DEF LocalInv

\* A reading keeps the time of before, so that what changes under it is read
\* again.
LEMMA LocalKeeps ==
  ASSUME LocalInv, Remade!Next PROVE LocalInv'
<1>1. /\ MaxClock \in Nat /\ clock \in 1..MaxClock /\ dir \in Dirs /\ local \in Locals
      /\ seen \in 0..MaxClock /\ pc \in {"idle", "first", "stat", "scan", "end"}
  BY WorldsAssumption DEF LocalInv, LocalDir!TypeOK, LocalDir!LocalDirAssumption, Dirs, Locals
<1>2. /\ local.mtime \in Nat /\ dir.mtime \in 1..MaxClock /\ seen \in Nat /\ clock \in Nat
      /\ dir.files \in SUBSET LocalPackage
  BY <1>1 DEF Dirs, Locals
<1>3. CASE Remade!Tick
  BY <1>1, <1>2, <1>3 DEF Remade!Tick, LocalInv, LocalDir!TypeOK, LocalDir!SameTimeSamePackages
<1>4. CASE Remade!AddFile \/ Remade!RemoveFile \/ Remade!Vanish
  <2>1. /\ dir.mtime < clock /\ clock' = clock /\ local' = local /\ pc' = pc /\ seen' = seen
    BY <1>4 DEF Remade!AddFile, Remade!RemoveFile, Remade!Vanish, Remade!NewSecond
  <2>2. dir' \in Dirs /\ dir'.mtime = clock
    <3>1. CASE Remade!AddFile \/ Remade!RemoveFile
      BY <1>1, <3>1 DEF Remade!AddFile, Remade!RemoveFile, Dirs
    <3>2. CASE Remade!Vanish
      BY <1>1, <3>2 DEF Remade!Vanish, Dirs
    <3> QED
      BY <1>4, <3>1, <3>2
  <2> QED
    BY <2>1, <2>2, DirChangeKeeps
<1>5. CASE Remade!Mount \/ Remade!Sync
  <2>1. /\ local' \in Locals /\ local'.mtime = local.mtime /\ local'.packages = local.packages
        /\ local'.mounted
        /\ clock' = clock /\ dir' = dir /\ seen' = seen
        /\ \/ pc' = "first" /\ ~local.mounted
           \/ pc' = "stat"
    BY <1>1, <1>5 DEF Remade!Mount, Remade!Sync, Locals
  <2> QED
    BY <1>1, <2>1 DEF LocalInv, LocalDir!TypeOK, LocalDir!SameTimeSamePackages, Locals
<1>6. CASE Remade!StatFails
  BY <1>1, <1>6 DEF Remade!StatFails, LocalInv, LocalDir!TypeOK, LocalDir!SameTimeSamePackages
<1>7. CASE Remade!StatUnchanged
  <2>1. /\ local' \in Locals /\ local'.mtime = local.mtime /\ local'.packages = local.packages
        /\ local'.mounted = local.mounted
        /\ clock' = clock /\ dir' = dir /\ seen' = seen /\ pc' = "idle"
    BY <1>1, <1>7 DEF Remade!StatUnchanged, Locals
  <2> QED
    BY <1>1, <2>1 DEF LocalInv, LocalDir!TypeOK, LocalDir!SameTimeSamePackages, Locals
<1>8. CASE Remade!StatChanged
  <2>1. /\ pc' = "scan" /\ seen' = dir.mtime /\ clock' = clock /\ dir' = dir /\ local' = local
        /\ pc = "first" \/ (pc = "stat" /\ local.mtime # dir.mtime)
    BY <1>8 DEF Remade!StatChanged, Remade!IsUnchanged
  <2>2. local.mtime < seen'
    BY <1>2, <2>1 DEF LocalInv
  <2> QED
    BY <1>1, <1>2, <2>1, <2>2 DEF LocalInv, LocalDir!TypeOK, LocalDir!SameTimeSamePackages
<1>9. CASE Remade!Scan
  <2>1. /\ local' \in Locals /\ local'.mtime = local.mtime
        /\ local'.mounted = local.mounted
        /\ local'.packages = IF dir.exists THEN dir.files ELSE {}
        /\ clock' = clock /\ dir' = dir /\ seen' = seen /\ pc = "scan" /\ pc' = "end"
    BY <1>1, <1>2, <1>9 DEF Remade!Scan, Remade!Scanned, Locals
  <2> QED
    BY <1>1, <1>2, <2>1 DEF LocalInv, LocalDir!TypeOK, LocalDir!SameTimeSamePackages, Locals
<1>10. CASE Remade!PopulateEnds
  <2>1. /\ local' \in Locals /\ local'.mtime = seen /\ local'.packages = local.packages
        /\ local'.mounted = local.mounted
        /\ clock' = clock /\ dir' = dir /\ seen' = seen /\ pc = "end" /\ pc' = "idle"
    BY <1>1, <1>10 DEF Remade!PopulateEnds, Remade!MtimeRead, Locals
  <2> QED
    BY <1>1, <1>2, <2>1 DEF LocalInv, LocalDir!TypeOK, LocalDir!SameTimeSamePackages, Locals
<1> QED
  BY <1>3, <1>4, <1>5, <1>6, <1>7, <1>8, <1>9, <1>10 DEF Remade!Next, Remade!Populate


-----------------------------------------------------------------------------
(* What is shown *)

ShownInv ==
  /\ SyntheticInv
  /\ part = "synthetic alone" => AloneInv
  /\ LocalInv

LEMMA ShownAtFirst == AllInit => ShownInv
<1> SUFFICES ASSUME AllInit PROVE ShownInv
  OBVIOUS
<1>1. Synthetic!Init /\ LocalDir!Init
  BY DEF AllInit
<1>2. SyntheticInv
  BY <1>1 DEF Synthetic!Init, SyntheticInv, Synthetic!TypeOK, Synthetic!SavedIsShown,
              Synthetic!NoWorld, Calls
<1>3. AloneInv
  BY <1>1 DEF Synthetic!Init, AloneInv, Synthetic!TransactionsAreSaved, Synthetic!NoWorld
<1>4. LocalInv
  <2>1. /\ clock = 1 /\ dir \in [exists : {TRUE}, mtime : {1}, files : SUBSET LocalPackage]
        /\ local = [mounted |-> FALSE, frozen |-> FALSE, mtime |-> 0, packages |-> {}]
        /\ pc = "idle" /\ seen = 0
    BY <1>1 DEF LocalDir!Init
  <2>2. /\ dir.mtime = 1 /\ local.mtime = 0 /\ ~local.mounted
    BY <2>1
  <2>3. LocalDir!TypeOK
    <3>1. MaxClock \in Nat \ {0}
      BY WorldsAssumption DEF LocalDir!LocalDirAssumption
    <3>2. 1 \in 1..MaxClock /\ 0 \in 0..MaxClock
      BY <3>1
    <3>3. dir \in [exists : BOOLEAN, mtime : 1..MaxClock, files : SUBSET LocalPackage]
      BY <2>1, <3>2
    <3>4. local \in [mounted : BOOLEAN, frozen : BOOLEAN, mtime : 0..MaxClock,
                     packages : SUBSET LocalPackage]
      BY <2>1, <3>2
    <3> QED
      BY <2>1, <3>2, <3>3, <3>4 DEF LocalDir!TypeOK
  <2> QED
    BY <2>1, <2>2, <2>3 DEF LocalInv, LocalDir!SameTimeSamePackages
<1> QED
  BY <1>1, <1>2, <1>3, <1>4 DEF ShownInv, Synthetic!Init

LEMMA ShownKept ==
  ShownInv /\ [AllNext]_<<part, vars, mountVars, syntheticVars, dirVars, undumpVars>> => ShownInv'
<1> SUFFICES ASSUME ShownInv,
                    [AllNext]_<<part, vars, mountVars, syntheticVars, dirVars, undumpVars>>
             PROVE  ShownInv'
  OBVIOUS
<1>1. CASE UNCHANGED <<syntheticVars, dirVars, part>>
  <2>1. SyntheticInv'
    BY <1>1 DEF ShownInv, SyntheticInv, syntheticVars, Synthetic!TypeOK, Synthetic!SavedIsShown,
                Synthetic!Files, Synthetic!File, Synthetic!Absent, Synthetic!Broken
  <2>2. LocalInv'
    BY <1>1 DEF ShownInv, LocalInv, dirVars, LocalDir!TypeOK, LocalDir!SameTimeSamePackages
  <2>3. AloneInv' <=> AloneInv
    BY <1>1 DEF AloneInv, syntheticVars, Synthetic!TransactionsAreSaved, Synthetic!File
  <2> QED
    BY <1>1, <2>1, <2>2, <2>3 DEF ShownInv
<1>2. CASE /\ \/ part = "synthetic" /\ Synthetic!Next
              \/ part = "synthetic alone" /\ Alone!Next
           /\ UNCHANGED <<part, dirVars>>
  <2>1. Synthetic!Next
    BY <1>2, AloneStep DEF Synthetic!Next
  <2>2. SyntheticInv'
    BY <2>1, SyntheticKeeps DEF ShownInv
  <2>3. part = "synthetic alone" => AloneInv'
    BY <1>2, AloneKeeps DEF ShownInv
  <2>4. LocalInv'
    BY <1>2 DEF ShownInv, LocalInv, dirVars, LocalDir!TypeOK, LocalDir!SameTimeSamePackages
  <2> QED
    BY <1>2, <2>2, <2>3, <2>4 DEF ShownInv
<1>3. CASE /\ \/ part = "local dir" /\ LocalDir!Next
              \/ part = "local dir remade" /\ Remade!Next
           /\ UNCHANGED <<part, syntheticVars>>
  <2>1. LocalInv'
    BY <1>3, LocalDirStep, LocalKeeps DEF ShownInv
  <2>2. SyntheticInv'
    BY <1>3 DEF ShownInv, SyntheticInv, syntheticVars, Synthetic!TypeOK, Synthetic!SavedIsShown,
                Synthetic!Files, Synthetic!File, Synthetic!Absent, Synthetic!Broken
  <2> QED
    BY <1>3, <2>1, <2>2 DEF ShownInv, syntheticVars
<1> QED
  BY <1>1, <1>2, <1>3 DEF AllNext, vars, mountVars, syntheticVars, dirVars, undumpVars

\* What a synthetic world and a directory show is what is in the file and in the
\* directory, and a transaction that returns TRUE is in the file (SavedIsShown),
\* for all packages, all contents of files and directories, all edits of them
\* between any two steps, and any number of seconds.
THEOREM WorldsShowWhatIsSaved == AllSpec => []SavedIsShown
<1>1. ShownInv => SavedIsShown
  BY DEF ShownInv, SavedIsShown, SyntheticInv, AloneInv, LocalInv,
         Synthetic!TransactionsAreSaved, Alone!TransactionsAreSaved, Synthetic!File, Alone!File
<1> QED
  BY <1>1, ShownAtFirst, ShownKept, PTL DEF AllSpec


-----------------------------------------------------------------------------
(* Mounted services *)

\* A name is the one that the URL gives, perhaps with a number.
ServiceNames ==
  {<<url.name>> : url \in MountUrls} \cup {Append(<<url.name>>, k) : url \in MountUrls, k \in Nat}

MountedServices ==
  [type : {"service", "derived"}, url : MountUrls, id : {url.path : url \in MountUrls}, name : ServiceNames]

Differ(v, w) ==
  /\ Mounts!LowerUrl(v.url) # Mounts!LowerUrl(w.url)
  /\ v.id # w.id
  /\ Mounts!LowerName(v.name) # Mounts!LowerName(w.name)

\* A service of the very type differs from those that were mounted after it.
AllDiffer(list) ==
  \A i, j \in 1..Len(list) : i < j /\ list[i].type = "service" => Differ(list[i], list[j])

HandlersInv ==
  /\ DOMAIN handlers \subseteq Mounts!Schemes
  /\ \A scheme \in DOMAIN handlers : handlers[scheme] \in {"service", "derived"}

MountsInv ==
  /\ services \in Seq(MountedServices) /\ AllDiffer(services)
  /\ HandlersInv
  /\ said \in {"mounted", "error", ""}

\* With different numbers a name is a different one, whatever its case.
LEMMA NumbersTellApart ==
  ASSUME NEW t, NEW j \in Nat, NEW k \in Nat, j # k,
         Mounts!LowerName(IF j = 0 THEN <<t>> ELSE Append(<<t>>, j))
           = Mounts!LowerName(IF k = 0 THEN <<t>> ELSE Append(<<t>>, k))
  PROVE  FALSE
<1> DEFINE Numbered(i) == IF i = 0 THEN <<t>> ELSE Append(<<t>>, i)
<1>1. /\ DOMAIN Numbered(0) = {1}
      /\ \A i \in Nat \ {0} : DOMAIN Numbered(i) = {1, 2} /\ Numbered(i)[2] = i
  <2>1. <<t>> \in Seq({t}) /\ Len(<<t>>) = 1 /\ DOMAIN <<t>> = {1}
    OBVIOUS
  <2> SUFFICES ASSUME NEW i \in Nat \ {0}
               PROVE  DOMAIN Append(<<t>>, i) = {1, 2} /\ Append(<<t>>, i)[2] = i
    BY <2>1
  <2>2. <<t>> \in Seq({t, i}) /\ i \in {t, i}
    BY <2>1
  <2> QED
    BY <2>1, <2>2
<1> HIDE DEF Numbered
<1>2. \A i \in Nat : /\ DOMAIN Mounts!LowerName(Numbered(i)) = DOMAIN Numbered(i)
                     /\ i # 0 => Mounts!LowerName(Numbered(i))[2] = Numbered(i)[2]
  BY <1>1 DEF Mounts!LowerName
<1>3. Mounts!LowerName(Numbered(j)) = Mounts!LowerName(Numbered(k))
  BY DEF Numbered
<1>4. CASE j = 0 \/ k = 0
  <2>1. 2 \notin {1} /\ 2 \in {1, 2}
    OBVIOUS
  <2> QED
    BY <1>1, <1>2, <1>3, <1>4, <2>1
<1>5. CASE j # 0 /\ k # 0
  BY <1>1, <1>2, <1>3, <1>5
<1> QED
  BY <1>4, <1>5

LEMMA TooFewNumbers ==
  ASSUME NEW n \in Nat, NEW f \in [0..n -> 1..n]
  PROVE  \E j \in 0..n, k \in 0..n : j # k /\ f[j] = f[k]
<1>1. IsFiniteSet(0..n) /\ Cardinality(0..n) = IF 0 > n THEN 0 ELSE n - 0 + 1
  BY FS_Interval
<1>2. IsFiniteSet(1..n) /\ Cardinality(1..n) = IF 1 > n THEN 0 ELSE n - 1 + 1
  BY FS_Interval
<1>3. Cardinality(1..n) < Cardinality(0..n)
  BY <1>1, <1>2
<1>4. ASSUME NEW S, NEW T, S = 0..n, T = 1..n
      PROVE  \E x, y \in S : x # y /\ f[x] = f[y]
  BY <1>1, <1>2, <1>3, <1>4, FS_PigeonHole
<1> QED
  BY <1>4

\* One of as many numbers as there are services, and none, gives a name that no
\* service has.
LEMMA NameIsFree ==
  ASSUME services \in Seq(MountedServices), NEW url \in MountUrls
  PROVE  /\ Mounts!NameWithout(<<url.name>>) \in ServiceNames
         /\ \A i \in 1..Len(services) : services[i].type = "service" =>
              Mounts!LowerName(services[i].name)
                # Mounts!LowerName(Mounts!NameWithout(<<url.name>>))
<1> DEFINE n == Len(services)
           Numbered(k)  == IF k = 0 THEN <<url.name>> ELSE Append(<<url.name>>, k)
           Conflicts(k) == \E w \in Mounts!ByType("service") :
                             Mounts!LowerName(w.name) = Mounts!LowerName(Numbered(k))
           free == {k \in 0..n : ~Conflicts(k)}
<1>1. Mounts!NameWithout(<<url.name>>) = Numbered(Mounts!Min(free))
  BY DEF Mounts!NameWithout
<1>2. /\ n \in Nat
      /\ Mounts!ByType("service") \subseteq {services[i] : i \in 1..n}
      /\ \A i \in 1..n : services[i].type = "service" => services[i] \in Mounts!ByType("service")
  BY DEF Mounts!ByType, Mounts!Range
<1>3. free # {}
  <2> SUFFICES ASSUME free = {} PROVE FALSE
    OBVIOUS
  <2>1. \A k \in 0..n : \E i \in 1..n : Mounts!LowerName(services[i].name) = Mounts!LowerName(Numbered(k))
    BY <1>2
  <2> DEFINE f == [k \in 0..n |-> CHOOSE i \in 1..n :
                     Mounts!LowerName(services[i].name) = Mounts!LowerName(Numbered(k))]
  <2>2. \A k \in 0..n : /\ f[k] \in 1..n
                        /\ Mounts!LowerName(services[f[k]].name) = Mounts!LowerName(Numbered(k))
    BY <2>1
  <2>3. f \in [0..n -> 1..n]
    BY <2>2
  <2> HIDE DEF f, n
  <2>5. PICK j \in 0..n, k \in 0..n : j # k /\ f[j] = f[k]
    BY <1>2, <2>3, TooFewNumbers
  <2>6. Mounts!LowerName(Numbered(j)) = Mounts!LowerName(Numbered(k))
    BY <2>2, <2>5
  <2> QED
    BY <2>5, <2>6, NumbersTellApart
<1>4. Mounts!Min(free) \in free
  <2> HIDE DEF free
  <2>1. free \subseteq Nat
    BY <1>2 DEF free
  <2>2. \E i \in free : \A j \in free : i <= j
    BY <1>3, <2>1, SmallestExists
  <2> QED
    BY <2>2 DEF Mounts!Min
<1>5. \A k \in 0..n : Numbered(k) \in ServiceNames
  BY <1>2 DEF ServiceNames
<1> HIDE DEF n, Numbered
<1>6. Mounts!NameWithout(<<url.name>>) \in ServiceNames
  BY <1>1, <1>4, <1>5
<1>7. \A i \in 1..n : services[i].type = "service" =>
        Mounts!LowerName(services[i].name) # Mounts!LowerName(Mounts!NameWithout(<<url.name>>))
  BY <1>1, <1>2, <1>4
<1> QED
  BY <1>6, <1>7 DEF n


\* A new service has a URL, an id and a name that no other has.
LEMMA MountKeeps == ASSUME MountsInv, Mounts!Mount PROVE MountsInv'
<1>1. PICK url \in MountUrls :
        /\ ~Mounts!Refused(url) /\ Mounts!LookupById(Mounts!Assembled(url).id) = {}
        /\ services' = Mounts!WithSubworld(Mounts!Assembled(url))
        /\ said' = "mounted" /\ handlers' = handlers
  BY DEF Mounts!Mount
<1> DEFINE name == Mounts!NameWithout(<<url.name>>)
           new  == [type |-> handlers[url.scheme], url |-> url, id |-> url.path, name |-> name]
<1>2. /\ services \in Seq(MountedServices) /\ Len(services) \in Nat
      /\ \A i \in 1..Len(services) : services[i] \in MountedServices
  <2>1. services \in Seq(MountedServices)
    BY DEF MountsInv
  <2> QED
    BY <2>1
<1>3. services' = Append(services, new)
  BY <1>1 DEF Mounts!WithSubworld, Mounts!Assembled
<1>4. /\ name \in ServiceNames
      /\ \A i \in 1..Len(services) : services[i].type = "service" =>
           Mounts!LowerName(services[i].name) # Mounts!LowerName(name)
  BY <1>2, NameIsFree
<1> HIDE DEF name
<1>5. \A i \in 1..Len(services) : services[i].type = "service" =>
        /\ Mounts!LowerUrl(services[i].url) # Mounts!LowerUrl(url)
        /\ services[i].id # url.path
  <2>1. \A i \in 1..Len(services) :
          services[i].type = "service" => services[i] \in Mounts!ByType("service")
    BY <1>2 DEF Mounts!ByType, Mounts!Range
  <2>2. Mounts!Assembled(url).id = url.path
    BY DEF Mounts!Assembled
  <2> QED
    BY <1>1, <2>1, <2>2 DEF Mounts!Refused, Mounts!LookupService, Mounts!LookupById
<1>6. new \in MountedServices
  <2>1. handlers[url.scheme] \in {"service", "derived"}
    BY <1>1 DEF Mounts!Refused, MountsInv, HandlersInv
  <2> QED
    BY <1>4, <2>1 DEF MountedServices
<1>7. /\ new.url = url /\ new.id = url.path /\ new.name = name
  OBVIOUS
<1> HIDE DEF new
<1>8. /\ services' \in Seq(MountedServices) /\ Len(services') = Len(services) + 1
      /\ \A i \in 1..Len(services) : services'[i] = services[i]
      /\ services'[Len(services) + 1] = new
      /\ DOMAIN services' = 1..(Len(services) + 1)
  BY <1>2, <1>3, <1>6
<1>9. \A i \in 1..Len(services) : services[i].type = "service" => Differ(services[i], new)
  BY <1>4, <1>5, <1>7 DEF Differ
<1>10. AllDiffer(services')
  <2> SUFFICES ASSUME NEW i \in 1..Len(services'), NEW j \in 1..Len(services'),
                      i < j, services'[i].type = "service"
               PROVE  Differ(services'[i], services'[j])
    BY DEF AllDiffer
  <2>1. /\ i \in 1..Len(services)
        /\ j \in 1..Len(services) \/ j = Len(services) + 1
    BY <1>2, <1>8
  <2>2. CASE i \in 1..Len(services) /\ j \in 1..Len(services)
    BY <1>8, <2>2 DEF MountsInv, AllDiffer
  <2> QED
    BY <1>8, <1>9, <2>1, <2>2
<1>11. HandlersInv'
  BY <1>1 DEF MountsInv, HandlersInv, Mounts!Schemes
<1> QED
  BY <1>1, <1>8, <1>10, <1>11 DEF MountsInv, AllDiffer, Differ, Mounts!LowerUrl, Mounts!LowerName

\* A service less leaves the others apart.
LEMMA UnmountKeeps == ASSUME MountsInv, Mounts!Unmount PROVE MountsInv'
<1>1. PICK i \in DOMAIN services :
        services' = Mounts!RemoveAt(services, i) /\ said' = "" /\ handlers' = handlers
  BY DEF Mounts!Unmount
<1>2. /\ services \in Seq(MountedServices) /\ Len(services) \in Nat /\ i \in 1..Len(services)
      /\ DOMAIN services = 1..Len(services)
  <2>1. services \in Seq(MountedServices)
    BY DEF MountsInv
  <2> QED
    BY <2>1
<1>3. services' = RemoveAt(services, i)
  BY <1>1 DEF Mounts!RemoveAt, RemoveAt
<1> DEFINE old == [k \in 1..(Len(services) - 1) |-> IF k < i THEN k ELSE k + 1]
<1>4. /\ services' \in Seq(MountedServices) /\ Len(services') = Len(services) - 1
      /\ \A k \in 1..(Len(services) - 1) : services'[k] = services[old[k]]
  BY <1>2, <1>3, WithoutOne
<1>5. /\ \A k \in 1..(Len(services) - 1) : old[k] \in DOMAIN services
      /\ \A j, k \in 1..(Len(services) - 1) : j < k => old[j] < old[k]
  BY <1>2
<1> HIDE DEF old
<1>6. DOMAIN services' = 1..(Len(services) - 1)
  BY <1>2, <1>4
<1>7. AllDiffer(services')
  <2> SUFFICES ASSUME NEW j \in 1..Len(services'), NEW k \in 1..Len(services'),
                      j < k, services'[j].type = "service"
               PROVE  Differ(services'[j], services'[k])
    BY DEF AllDiffer
  <2>1. j \in 1..(Len(services) - 1) /\ k \in 1..(Len(services) - 1)
    BY <1>4
  <2>2. /\ old[j] \in 1..Len(services) /\ old[k] \in 1..Len(services) /\ old[j] < old[k]
        /\ services'[j] = services[old[j]] /\ services'[k] = services[old[k]]
    BY <1>2, <1>4, <1>5, <2>1
  <2>3. AllDiffer(services)
    BY DEF MountsInv
  <2>4. Differ(services[old[j]], services[old[k]])
    BY <2>2, <2>3, Zenon DEF AllDiffer
  <2> QED
    BY <2>2, <2>4
<1>8. HandlersInv'
  BY <1>1 DEF MountsInv, HandlersInv, Mounts!Schemes
<1> QED
  BY <1>1, <1>4, <1>7, <1>8 DEF MountsInv, AllDiffer, Differ, Mounts!LowerUrl, Mounts!LowerName

LEMMA MountsKeep ==
  ASSUME MountsInv, Mounts!Next \/ UNCHANGED mountVars PROVE MountsInv'
<1>1. CASE Mounts!Mount \/ Mounts!Unmount
  BY <1>1, MountKeeps, UnmountKeeps
<1>2. CASE /\ Mounts!Register \/ Mounts!Unregister \/ Mounts!MountFails \/ UNCHANGED mountVars
  <2>1. services' = services /\ said' \in {said, "error", ""}
    BY <1>2 DEF Mounts!Register, Mounts!Unregister, Mounts!MountFails, mountVars
  <2>2. HandlersInv'
    <3>1. CASE Mounts!Register
      <4>1. PICK s \in Mounts!Schemes, t \in {"service", "derived"} :
              handlers' = [u \in DOMAIN handlers \cup {s} |-> IF u = s THEN t ELSE handlers[u]]
        BY <3>1 DEF Mounts!Register
      <4> QED
        BY <4>1 DEF MountsInv, HandlersInv, Mounts!Schemes
    <3>2. CASE Mounts!Unregister
      <4>1. PICK s \in DOMAIN handlers : handlers' = [u \in DOMAIN handlers \ {s} |-> handlers[u]]
        BY <3>2 DEF Mounts!Unregister
      <4> QED
        BY <4>1 DEF MountsInv, HandlersInv, Mounts!Schemes
    <3>3. CASE Mounts!MountFails \/ UNCHANGED mountVars
      BY <3>3 DEF Mounts!MountFails, mountVars, MountsInv, HandlersInv, Mounts!Schemes
    <3> QED
      BY <1>2, <3>1, <3>2, <3>3
  <2>3. services' \in Seq(MountedServices) /\ AllDiffer(services')
    BY <2>1 DEF MountsInv
  <2>4. said' \in {"mounted", "error", ""}
    BY <2>1 DEF MountsInv
  <2> QED
    BY <2>2, <2>3, <2>4 DEF MountsInv, AllDiffer, Differ, Mounts!LowerUrl, Mounts!LowerName
<1> QED
  BY <1>1, <1>2 DEF Mounts!Next

\* Of two services that share a URL, an id, or a name but for case, the first is of a
\* derived type (OnlyDerivedShare): for all URLs, any way to make letters small, any
\* number of services, and whatever handlers and services come and go.
THEOREM DerivedServicesAloneShare == AllSpec => []OnlyDerivedShare
<1>1. AllInit => MountsInv
  <2> SUFFICES ASSUME AllInit PROVE MountsInv
    OBVIOUS
  <2>1. handlers = [s \in {} |-> "service"] /\ services = <<>> /\ said = ""
    BY DEF AllInit, Mounts!Init
  <2>2. <<>> \in Seq(MountedServices) /\ 1..Len(<<>>) = {}
    OBVIOUS
  <2>3. AllDiffer(services)
    BY <2>1, <2>2 DEF AllDiffer
  <2>4. HandlersInv
    BY <2>1 DEF HandlersInv
  <2> QED
    BY <2>1, <2>2, <2>3, <2>4 DEF MountsInv
<1>2. MountsInv /\ [AllNext]_<<part, vars, mountVars, syntheticVars, dirVars, undumpVars>>
        => MountsInv'
  BY MountsKeep DEF AllNext, mountVars
<1>3. MountsInv => OnlyDerivedShare
  <2> SUFFICES ASSUME MountsInv PROVE OnlyDerivedShare
    OBVIOUS
  <2>1. services \in Seq(MountedServices)
    BY DEF MountsInv
  <2>2. /\ DOMAIN services = 1..Len(services)
        /\ \A i \in DOMAIN services : services[i] \in MountedServices
    BY <2>1
  <2>3. Mounts!TypeOK
    <3>1. Mounts!Range(handlers) \subseteq {"service", "derived"}
      BY DEF MountsInv, HandlersInv, Mounts!Range
    <3>2. \A i \in DOMAIN services :
            services[i].url \in MountUrls /\ services[i].type \in {"service", "derived"}
      BY <2>2 DEF MountedServices
    <3> QED
      BY <3>1, <3>2 DEF MountsInv, HandlersInv, Mounts!TypeOK
  <2>4. Mounts!OnlyDerivedShare
    BY <2>2 DEF MountsInv, AllDiffer, Differ, Mounts!OnlyDerivedShare, Mounts!SameService,
                Mounts!SameName
  <2> QED
    BY <2>3, <2>4 DEF OnlyDerivedShare
<1> QED
  BY <1>1, <1>2, <1>3, PTL DEF AllSpec

=============================================================================
