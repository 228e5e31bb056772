------------------------------- MODULE UndumpWorld -------------------------------
(***************************************************************************)
(* The world that is read from a dump of another one (rc-world-undump.c,   *)
(* rc_extract_packages_from_undump_buffer), the dump                       *)
(* (rc_world_dump_to_xml), and the counts of references of the channels    *)
(* that it makes.  A count covers the channel list of the store, the       *)
(* subscriptions and the packages.                                         *)
(***************************************************************************)
EXTENDS Integers, Sequences, FiniteSets, SequencesExt, FiniteSetsExt

CONSTANTS
  Dumps,           \* dumps: see DumpOf
  TogglesOnly,     \* whether clients subscribe only to what they are not subscribed to, and the reverse
  DefaultPriority, \* DEFAULT_CHANNEL_PRIORITY
  MaxLoads,        \* bound: how often a dump is loaded
  MaxSubscribed    \* bound: the length of the list of subscriptions

\* What the constants are, assumed wherever they are given values.
UndumpAssumption ==
  TogglesOnly \in BOOLEAN /\ DefaultPriority \in Nat /\ {MaxLoads, MaxSubscribed} \subseteq Nat

VARIABLES
  world,     \* the world: see Empty
  last,      \* history: the dump that was loaded last
  loads      \* history: how many were

vars == <<world, last, loads>>

\* The channels that were made, [id, refs, priority, unsubd, system], by number; those in the
\* list of the store; the list of subscriptions; packages, each <<channel, name>>; locks; and
\* whether an assertion about a count has failed.
Empty ==
  [heap |-> <<>>, listed |-> <<>>, subscriptions |-> <<>>, packages |-> {}, locks |-> <<>>,
   asserted |-> FALSE]

Occurrences(list, c) == Cardinality({i \in DOMAIN list : list[i] = c})

Ref(w, c, n) == [w EXCEPT !.heap[c].refs = @ + n]

\* rc_channel_unref, n times.
Unref(w, c, n) ==
  IF w.heap[c].refs >= n THEN [w EXCEPT !.heap[c].refs = @ - n]
  ELSE [w EXCEPT !.heap[c].refs = 0, !.asserted = TRUE]

PackagesIn(w, c) == {p \in w.packages : p[1] = c}

\* rc_world_store_clear: packages only.
Cleared(w) ==
  FoldSet(LAMBDA c, u : Unref(u, c, Cardinality(PackagesIn(w, c))),
          [w EXCEPT !.packages = {}], DOMAIN w.heap)

-----------------------------------------------------------------------------
\* Subscriptions.

IsSubscribed(w, c) == c \in Range(w.subscriptions)

Subscribe(w, c) == Ref([w EXCEPT !.subscriptions = <<c>> \o @], c, 1)

\* The reference goes whether or not the channel was in the list.
Unsubscribe(w, c) ==
  LET at == {i \in DOMAIN w.subscriptions : w.subscriptions[i] = c}
      list == IF at = {} THEN w.subscriptions ELSE RemoveAt(w.subscriptions, Min(at))
  IN  Unref([w EXCEPT !.subscriptions = list], c, 1)

\* rc_world_undump_set_subscription.
SetSubscription(w, c, subscribe) == IF subscribe THEN Subscribe(w, c) ELSE Unsubscribe(w, c)

-----------------------------------------------------------------------------
\* Loading.

\* rc_channel_new and add_channel_cb, with rc_world_store_add_channel.
AddChannel(w, channel, subscribed) ==
  LET c == Len(w.heap) + 1
      made == [w EXCEPT !.heap = Append(@, [channel EXCEPT !.refs = 2]), !.listed = <<c>> \o @]
  IN  IF channel.system THEN made ELSE SetSubscription(made, c, subscribed)

\* add_package_cb: each package holds its channel, the one that was made last.
AddPackages(w, names) ==
  LET c == Len(w.heap)
  IN  Ref([w EXCEPT !.packages = @ \cup {<<c, n>> : n \in names}], c, Cardinality(names))

SystemChannel == [id |-> "@system", refs |-> 1, priority |-> -1, unsubd |-> -1, system |-> TRUE]

\* rc_extract_packages_from_undump_buffer: locks, the system's packages, and the channels.
Extract(w, dump) ==
  LET locked == [w EXCEPT !.locks = Reverse(dump.locks) \o @]
      withSystem == AddPackages(AddChannel(locked, SystemChannel, FALSE), dump.system)
      Channel(node) == [id |-> node.id, refs |-> 1, priority |-> node.base,
                        unsubd |-> node.unsubd, system |-> FALSE]
      OneMore(u, node) == AddPackages(AddChannel(u, Channel(node), node.subscribed), node.packages)
  IN  FoldLeft(OneMore, withSystem, dump.channels)

\* rc_world_undump_load.
Loaded(w, dump) == Extract(Cleared(w), dump)

-----------------------------------------------------------------------------
\* Dumping.

\* rc_channel_get_priority.
Priority(channel, subscribed) ==
  LET base == IF channel.priority <= 0 THEN DefaultPriority ELSE channel.priority
  IN  CASE subscribed -> base
        [] ~subscribed /\ channel.unsubd > 0 -> channel.unsubd
        [] OTHER -> base \div 2

\* rc_channel_to_xml_node, with the packages of channels of its id (rc_channel_equal).
ChannelNode(w, c) ==
  [id |-> w.heap[c].id, subscribed |-> IsSubscribed(w, c),
   base |-> Priority(w.heap[c], TRUE), unsubd |-> Priority(w.heap[c], FALSE),
   packages |-> {p[2] : p \in {q \in w.packages : w.heap[q[1]].id = w.heap[c].id}}]

\* Faulty: the packages of the system's channel are written once more, as a channel.
DumpOfAll(w) ==
  [locks |-> w.locks,
   system |-> {p[2] : p \in {q \in w.packages : w.heap[q[1]].system}},
   channels |-> [i \in DOMAIN w.listed |-> ChannelNode(w, w.listed[i])]]

\* rc_world_dump_to_xml.
DumpOf(w) ==
  LET others == SelectSeq(w.listed, LAMBDA c : ~w.heap[c].system)
  IN  [locks |-> w.locks,
       system |-> {p[2] : p \in {q \in w.packages : w.heap[q[1]].system}},
       channels |-> [i \in DOMAIN others |-> ChannelNode(w, others[i])]]

-----------------------------------------------------------------------------
Init ==
  /\ world = Empty
  /\ last = [locks |-> <<>>, system |-> {}, channels |-> <<>>]
  /\ loads = 0

Load ==
  \E dump \in Dumps :
    /\ loads < MaxLoads
    /\ world' = Loaded(world, dump)
    /\ last' = dump
    /\ loads' = loads + 1

\* A client, of a channel in the list.
ClientSets ==
  \E c \in Range(world.listed), subscribe \in BOOLEAN :
    /\ ~world.heap[c].system /\ ~world.asserted
    /\ TogglesOnly => subscribe # IsSubscribed(world, c)
    /\ subscribe => Len(world.subscriptions) < MaxSubscribed
    /\ world' = SetSubscription(world, c, subscribe)
    /\ UNCHANGED <<last, loads>>

\* rc_world_undump_finalize and rc_world_store_finalize.
Finalize ==
  LET Dropped(w, list) == FoldLeft(LAMBDA u, c : Unref(u, c, 1), w, list)
      dropped == Dropped(Cleared(Dropped(world, world.subscriptions)), world.listed)
  IN  /\ loads > 0 /\ world.listed # <<>>
      /\ world' = [dropped EXCEPT !.subscriptions = <<>>, !.listed = <<>>, !.locks = <<>>]
      /\ last' = [locks |-> <<>>, system |-> {}, channels |-> <<>>]
      /\ loads' = MaxLoads

Next == Load \/ ClientSets \/ Finalize

Spec == Init /\ [][Next]_vars

-----------------------------------------------------------------------------
\* Two lists are the same up to their order, which every load turns around.
SameEntries(s, t) ==
  \A x \in Range(s) \cup Range(t) : Occurrences(s, x) = Occurrences(t, x)

SameDump(d, e) ==
  d.system = e.system /\ SameEntries(d.locks, e.locks) /\ SameEntries(d.channels, e.channels)

\* A dump of a world, read back, is a world of the same dump: priorities that were never
\* set, subscriptions and packages included (rc_channel_to_xml_node writes what
\* rc_extract_packages_from_undump_buffer reads).
DumpsReadBack == SameDump(DumpOf(Loaded(Empty, DumpOf(world))), DumpOf(world))

\* The packages are those of the last dump, however many were loaded before
\* (rc_world_undump_load clears the store).
ShowsTheLast ==
  {<<world.heap[p[1]].id, p[2]>> : p \in world.packages} =
    {<<"@system", n>> : n \in last.system}
      \cup UNION {{<<node.id, n>> : n \in node.packages} : node \in Range(last.channels)}

\* No channel goes while a list or a package has it: its count is at least that of those
\* who hold it (rc_channel_ref, rc_channel_unref and everyone that calls them).
HeldWhileUsed ==
  \A c \in DOMAIN world.heap :
    world.heap[c].refs >= Occurrences(world.listed, c) + Occurrences(world.subscriptions, c)
                            + Cardinality(PackagesIn(world, c))

\* "g_assert (channel->refs > 0)" in rc_channel_ref and rc_channel_unref.
AssertHolds == ~world.asserted
=============================================================================
