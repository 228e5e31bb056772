------------------------------- MODULE MultiQueries -------------------------------
(***************************************************************************)
(* What clients ask of a multi world (rc-world-multi.c): walks over its    *)
(* subworlds, whose callbacks may run the main loop in which subworlds     *)
(* come and go, and the sequence numbers by which clients know that what   *)
(* they remember still holds (rc-world.c).                                 *)
(***************************************************************************)
EXTENDS Naturals, Sequences, FiniteSets, SequencesExt, FiniteSetsExt

CONSTANTS
  World,       \* worlds that may be subworlds
  Kind,        \* what has a number of its own: packages, channels, subscriptions, locks
  Early,       \* kinds whose signal a store emits before it changes: packages
  Silent,      \* kinds of which no operation tells: locks
  MaxChanges,  \* bound: how often a subworld changes in one kind
  MaxTouches   \* bound: the greatest sequence number

\* What the bounds are, assumed wherever they are given values.
MultiAssumption == MaxChanges \in Nat /\ MaxTouches \in Nat \ {0}

VARIABLES
  subworlds,   \* the list, of which each has handlers on the signals of its world
  content,     \* content[w][k]: what world w has of kind k, as the number of its changes
  seqNo,       \* the sequence numbers of the multi world
  cache,       \* cache[k]: what a client remembers, [seq, view, inHandler]
  walk         \* the walk under way, or NoWalk

vars == <<subworlds, content, seqNo, cache, walk>>

NoWalk == [live |-> FALSE, todo |-> <<>>, at |-> {}, visited |-> <<>>, stayed |-> {}, cut |-> FALSE,
           on |-> FALSE]

\* What a query for kind k has for an answer.
View(k) == {<<w, content[w][k]>> : w \in Range(subworlds)}

TypeOK ==
  /\ Range(subworlds) \subseteq World /\ IsInjective(subworlds)
  /\ content \in [World -> [Kind -> 0..MaxChanges]]
  /\ seqNo \in [Kind -> 1..MaxTouches]
  /\ walk.stayed \subseteq World

Init ==
  /\ subworlds = <<>>
  /\ content = [w \in World |-> [k \in Kind |-> 0]]
  /\ seqNo = [k \in Kind |-> 1]
  /\ cache = [k \in Kind |-> [seq |-> 1, view |-> {}, inHandler |-> FALSE]]
  /\ walk = NoWalk

\* Faulty: one of the numbers is forgotten.
TouchedButOne == [k \in Kind |-> IF k = CHOOSE j \in Kind : TRUE THEN seqNo[k] ELSE seqNo[k] + 1]

\* touch_all_sequence_numbers
Touched == [k \in Kind |-> seqNo[k] + 1]

CanTouch == \A k \in Kind : seqNo[k] < MaxTouches

\* rc_world_multi_add_subworld, and the handler of "subworld_added".
Add ==
  \E w \in World \ Range(subworlds) :
    /\ CanTouch
    /\ subworlds' = Append(subworlds, w)
    /\ seqNo' = Touched
    /\ UNCHANGED <<content, cache, walk>>

\* The walk under way, when world w goes: its link has no next one any more.
WalkWithout(w) ==
  [walk EXCEPT !.stayed = @ \ {w}, !.cut = @ \/ (walk.on /\ walk.live /\ w \in walk.at),
               !.at = IF walk.live THEN @ \ {w} ELSE @]

\* rc_world_multi_remove_subworld, and the handler of "subworld_removed".
Unmount ==
  \E i \in DOMAIN subworlds :
    /\ CanTouch
    /\ subworlds' = RemoveAt(subworlds, i)
    /\ seqNo' = Touched
    /\ walk' = WalkWithout(subworlds[i])
    /\ UNCHANGED <<content, cache>>

\* The handlers that subworld_info_new connects and subworld_info_free disconnects; the
\* operations on locks (rc-world.c:73, rc-world-store.c:1080) emit no signal.
IsHeard(w, k) == w \in Range(subworlds) /\ k \notin Silent

\* What a client remembers when it asks for kind k.
Asked(k, seq, inHandler) ==
  [cache EXCEPT ![k] = [seq |-> seq, view |-> View(k), inHandler |-> inHandler]]

\* A world changes; changed_packages_cb and its like touch the number of the multi world, and
\* a client may ask from a handler of the signal that tells of it.
Change ==
  \E w \in World, k \in Kind :
    /\ content[w][k] < MaxChanges
    /\ IsHeard(w, k) => seqNo[k] < MaxTouches
    /\ content' = [content EXCEPT ![w][k] = @ + 1]
    /\ seqNo' = IF IsHeard(w, k) THEN [seqNo EXCEPT ![k] = @ + 1] ELSE seqNo
    /\ \/ cache' = cache
       \/ k \in Early /\ IsHeard(w, k) /\ cache' = Asked(k, seqNo[k] + 1, TRUE)
    /\ UNCHANGED <<subworlds, walk>>

\* A client asks again only when the number has changed.
Ask ==
  \E k \in Kind :
    /\ cache[k].seq # seqNo[k]
    /\ cache' = Asked(k, seqNo[k], FALSE)
    /\ UNCHANGED <<subworlds, content, seqNo, walk>>

-----------------------------------------------------------------------------
\* Walks.

\* rc_world_multi_foreach_subworld: a copy of the list, which turns out in reverse order.
WalkCopy ==
  /\ ~walk.on
  /\ walk' = [NoWalk EXCEPT !.on = TRUE, !.todo = Reverse(subworlds), !.stayed = Range(subworlds)]
  /\ UNCHANGED <<subworlds, content, seqNo, cache>>

\* foreach_channel, foreach_lock, foreach_package, foreach_providing and the other queries
\* walk the list itself.
WalkList ==
  /\ ~walk.on /\ subworlds # <<>>
  /\ walk' = [NoWalk EXCEPT !.on = TRUE, !.live = TRUE, !.at = {subworlds[1]},
                            !.visited = <<subworlds[1]>>, !.stayed = Range(subworlds)]
  /\ UNCHANGED <<subworlds, content, seqNo, cache>>

\* The world after the one that was visited, if there is one.
Following ==
  {subworlds[i + 1] : i \in {j \in 1..(Len(subworlds) - 1) : subworlds[j] \in walk.at}}

NextCopied ==
  /\ walk.on /\ ~walk.live /\ walk.todo # <<>>
  /\ walk' = [walk EXCEPT !.todo = Tail(@), !.visited = Append(@, Head(walk.todo))]
  /\ UNCHANGED <<subworlds, content, seqNo, cache>>

NextListed ==
  /\ walk.on /\ walk.live /\ Following # {}
  /\ \E w \in Following : walk' = [walk EXCEPT !.at = {w}, !.visited = Append(@, w)]
  /\ UNCHANGED <<subworlds, content, seqNo, cache>>

AtItsEnd == walk.on /\ IF walk.live THEN Following = {} ELSE walk.todo = <<>>

WalkEnds ==
  /\ AtItsEnd
  /\ walk' = NoWalk
  /\ UNCHANGED <<subworlds, content, seqNo, cache>>

Next ==
  \/ Add \/ Unmount \/ Change \/ Ask
  \/ WalkCopy \/ WalkList \/ NextCopied \/ NextListed \/ WalkEnds

Spec == Init /\ [][Next]_vars

-----------------------------------------------------------------------------
\* What a client remembers with the number that still is the multi world's is what it would
\* be told (touch_all_sequence_numbers and the handlers on the signals of subworlds), unless
\* it asked from a handler that ran too early, or no one tells of the change.
FreshWhileUnchanged ==
  \A k \in Kind \ Silent :
    cache[k].seq = seqNo[k] /\ ~cache[k].inHandler => cache[k].view = View(k)

\* "The sequence numbers gets incremented every time the RCWorld is changed" (rc-world.h:125).
\* It does not hold of locks, nor in time for the handlers of changed_packages.
FreshInAllKinds == \A k \in Kind : cache[k].seq = seqNo[k] => cache[k].view = View(k)

\* A walk that ends has come to every world that was mounted all the while, and to none of
\* them twice - unless the very world that a query was at has gone under it
\* (g_slist_remove_link, and the copy in rc_world_multi_foreach_subworld).
StayersAreVisited ==
  AtItsEnd /\ ~walk.cut =>
    \A w \in walk.stayed : Cardinality({i \in DOMAIN walk.visited : walk.visited[i] = w}) = 1
=============================================================================
