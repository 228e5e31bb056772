------------------------------ MODULE WorldQueries ------------------------------
(***************************************************************************)
(* The questions a client asks of a world as a whole, and its              *)
(* subscriptions: which package is installed, which are the upgrades of    *)
(* one, which is the best, which are those of the whole system, where an   *)
(* installed package has come from, who is the only one to provide         *)
(* something.  What is installed and what the channels hold is a list, in  *)
(* the order in which the world calls back; system world and channels are  *)
(* not in one store, so that nothing is hidden.                            *)
(***************************************************************************)
EXTENDS Naturals, Sequences, SequencesExt

CONSTANTS
  Package, Channel,
  SpecOf,      \* the RCPackageSpec of a package: name, version and arch
  ChannelOf,   \* the channel a package is in
  History,     \* the specs of a package's former versions
  System,      \* the channels whose packages are installed
  Deaf,        \* the channels of worlds without set_subscribed_fn
  Provider,    \* the packages that provide a certain dependency
  Lists,       \* what the world may hold
  NOARCH,      \* RC_ARCH_NOARCH
  NONE,        \* NULL
  MaxChanges   \* a bound on the subscriptions' sequence number

\* What the constants are, assumed wherever they are given values.
QueriesAssumption ==
  /\ DOMAIN SpecOf = Package /\ ChannelOf \in [Package -> Channel]
  /\ DOMAIN History = Package
  /\ System \subseteq Channel /\ Deaf \subseteq Channel /\ Provider \subseteq Package
  /\ \A list \in Lists : Range(list) \subseteq Package
  /\ NONE \notin Package \cup Channel /\ MaxChanges \in Nat

VARIABLES
  packages,    \* the packages, in the order of rc_world_foreach_package
  subscribed,  \* the channels whose subworld tells they are subscribed to
  locked,      \* the packages some lock matches
  seqNo,       \* seq_no_subscriptions
  seen         \* what a handler of changed_subscriptions has last seen

vars == <<packages, subscribed, locked, seqNo, seen>>

TypeOK ==
  /\ packages \in Lists
  /\ subscribed \subseteq Channel \ System
  /\ locked \subseteq Package
  /\ seqNo \in 1..MaxChanges
  /\ seen \in [seq : 1..seqNo, channels : SUBSET (Channel \ System)]

Init ==
  /\ packages \in Lists
  /\ subscribed = {}
  /\ locked = {}
  /\ seqNo = 1
  /\ seen = [seq |-> 1, channels |-> {}]

-----------------------------------------------------------------------------
\* Subscriptions and locks.

IsSubscribed(c) == c \notin System /\ c \in subscribed

\* rc_world_set_subscription: the number is touched, and the signal emitted, if the
\* answer of rc_world_is_subscribed is another one than before.
SetSubscription(c, on) ==
  /\ c \notin System /\ seqNo < MaxChanges
  /\ subscribed' = IF c \in Deaf THEN subscribed
                   ELSE IF on THEN subscribed \cup {c} ELSE subscribed \ {c}
  /\ IF (c \in subscribed) # (c \in subscribed')
     THEN seqNo' = seqNo + 1 /\ seen' = [seq |-> seqNo', channels |-> subscribed']
     ELSE UNCHANGED <<seqNo, seen>>
  /\ UNCHANGED <<packages, locked>>

\* rc_world_add_lock, rc_world_remove_lock: locks that match one package each.
AddLock(p)    == locked' = locked \cup {p} /\ UNCHANGED <<packages, subscribed, seqNo, seen>>
RemoveLock(p) == locked' = locked \ {p} /\ UNCHANGED <<packages, subscribed, seqNo, seen>>

IsLocked(p) == p \in locked

Next ==
  \/ \E c \in Channel, on \in BOOLEAN : SetSubscription(c, on)
  \/ \E p \in Package : AddLock(p) \/ RemoveLock(p)

Spec == Init /\ [][Next]_vars

-----------------------------------------------------------------------------
\* Queries.

IsInstalled(p) == ChannelOf[p] \in System
Version(p)     == SpecOf[p].version

\* rc_world_foreach_package_by_name, for a set of channels.
ForeachByName(name, where) ==
  SelectSeq(packages, LAMBDA p : SpecOf[p].name = name /\ ChannelOf[p] \in where)

NonSystem == Channel \ System

FirstOr(list, default) == IF list = <<>> THEN default ELSE Head(list)

\* rc_world_find_installed_version
FindInstalledVersion(p) ==
  FirstOr(SelectSeq(ForeachByName(SpecOf[p].name, Channel), IsInstalled), NONE)

\* rc_world_get_package
GetPackage(c, spec) ==
  FirstOr(SelectSeq(ForeachByName(spec.name, {c}), LAMBDA p : SpecOf[p] = spec), NONE)

\* rc_world_get_package_with_constraint, for an RCPackageDep of a name, a version and
\* RC_RELATION_EQUAL: as an RCPackageSpec it has no arch (dep_new).
GetPackageWithConstraint(c, name, version) ==
  GetPackage(c, [name |-> name, version |-> version, arch |-> NOARCH])

\* rc_world_foreach_upgrade
ForeachUpgrade(p, where) ==
  SelectSeq(ForeachByName(SpecOf[p].name, where),
            LAMBDA q : Version(p) < Version(q) /\ ~IsLocked(q))

Passes(q, subscribedOnly) == (subscribedOnly => IsSubscribed(ChannelOf[q])) /\ ~IsLocked(q)

\* Faulty: a package is compared with the one that is to be upgraded.
BestUpgradeLast(p, subscribedOnly) ==
  FoldLeft(LAMBDA best, q : IF Passes(q, subscribedOnly) /\ Version(p) < Version(q)
                            THEN q ELSE best,
           NONE, ForeachUpgrade(p, NonSystem))

\* rc_world_get_best_upgrade, get_best_upgrade_cb
BestUpgrade(p, subscribedOnly) ==
  LET best == FoldLeft(LAMBDA b, q : IF Passes(q, subscribedOnly) /\ Version(b) < Version(q)
                                     THEN q ELSE b,
                       p, ForeachUpgrade(p, NonSystem))
  IN  IF best = p THEN NONE ELSE best

\* build_unique_hash_cb: of the installed packages of a name the newest.
NewestInstalled(name) ==
  FoldLeft(LAMBDA old, q : IF old # NONE /\ Version(q) <= Version(old) THEN old ELSE q,
           NONE, ForeachByName(name, System))

\* foreach_system_package_cb, foreach_system_upgrade_cb: what is offered for the
\* packages of a name.
SystemUpgrade(name, subscribedOnly) ==
  LET p == NewestInstalled(name)
  IN  IF p = NONE \/ IsLocked(p) THEN NONE
      ELSE FoldLeft(LAMBDA best, q :
                      IF Passes(q, subscribedOnly)
                         /\ (best = NONE \/ Version(best) <= Version(q))
                      THEN q ELSE best,
                    NONE, ForeachUpgrade(p, NonSystem))

\* rc_world_get_single_provider, single_provider_cb: the first, if no other has a spec
\* that differs from its.
SingleProvider(where) ==
  LET found == SelectSeq(packages, LAMBDA p : p \in Provider /\ ChannelOf[p] \in where)
      count == IF found = <<>> THEN 0
               ELSE 1 + Len(SelectSeq(Tail(found),
                                      LAMBDA p : SpecOf[p] # SpecOf[Head(found)]))
  IN  IF count = 1 THEN Head(found) ELSE NONE

-----------------------------------------------------------------------------
Held == Range(packages)

\* The best upgrade is of the highest version there is among the packages of channels
\* that are not locked and, if asked for, subscribed to; there is none only if there
\* is no such package (the comment on rc_world_get_best_upgrade).
BestIsTheNewest ==
  \A p \in Held : \A only \in BOOLEAN :
    LET best       == BestUpgrade(p, only)
        candidates == {q \in Held : /\ ~IsInstalled(q) /\ SpecOf[q].name = SpecOf[p].name
                                    /\ Version(q) > Version(p) /\ Passes(q, only)}
    IN  /\ candidates = {} <=> best = NONE
        /\ best # NONE => best \in candidates
                          /\ \A q \in candidates : Version(q) <= Version(best)

\* What rc_world_foreach_system_upgrade offers is an upgrade of every installed version
\* of that name, and as new as what rc_world_get_best_upgrade gives for the newest; a
\* locked one is offered none.
OffersAgree ==
  \A p \in Held : \A only \in BOOLEAN :
    IsInstalled(p) =>
      LET newest == NewestInstalled(SpecOf[p].name)
          offer  == SystemUpgrade(SpecOf[p].name, only)
          best   == BestUpgrade(newest, only)
      IN  /\ offer # NONE => /\ Version(offer) > Version(p) /\ ~IsLocked(newest)
                             /\ best # NONE /\ Version(offer) = Version(best)
          /\ offer = NONE /\ ~IsLocked(newest) => best = NONE

\* Whoever is told to be the only provider in some channels is: all that provide it
\* there are of its spec (rc_world_get_single_provider).
OnlyOneProvides ==
  \A where \in SUBSET Channel :
    LET one == SingleProvider(where)
        all == {p \in Held \cap Provider : ChannelOf[p] \in where}
    IN  (one # NONE) <=> (all # {} /\ \A p, q \in all : SpecOf[p] = SpecOf[q])

\* Who has seen the present sequence number of the subscriptions, in a handler of
\* changed_subscriptions or before, has seen the subscriptions as they are.
NumberTellsSubscriptions == seen.seq = seqNo => seen.channels = subscribed

\* A package of a channel is found by its name and exactly its version (the comment on
\* rc_world_get_package_with_constraint).
ConstraintFinds ==
  \A p \in Held :
    ~IsInstalled(p) =>
      GetPackageWithConstraint(ChannelOf[p], SpecOf[p].name, Version(p)) # NONE

=============================================================================
