------------------------------- MODULE Resolver -------------------------------
(***************************************************************************)
(* The dependency resolver.  A request becomes one queue of items over an  *)
(* empty context.  The resolver takes the first pending queue and          *)
(* processes it in passes until it is invalid, empty (a solution), or      *)
(* nothing but branches; in the last case the queue is replaced by one     *)
(* queue for each alternative of its first branch.  Queues that are        *)
(* already worse than the best solution are pruned, and alternatives that  *)
(* a better channel makes unlikely are deferred until nothing else is      *)
(* left.                                                                   *)
(*                                                                         *)
(* The steps are those of one queue item: everything the loop does between *)
(* two items is one action.                                                *)
(***************************************************************************)
EXTENDS QueueItem

CONSTANT Requests   \* the requests that are made of the resolver

RequestType ==
  [install : SUBSET Pkg, remove : SUBSET Pkg, extraDeps : SUBSET Dep,
   extraConflicts : SUBSET Dep, verifying : BOOLEAN, timeout : BOOLEAN]

ASSUME RequestAssumption == Requests \subseteq RequestType

VARIABLES
  request,    \* what the resolver was asked for
  pending,    \* queues to be processed, a sequence of [context, items]
  deferred,   \* queues that are tried only when nothing else is left
  complete,   \* the contexts of the solutions found, the last one first
  pruned,     \* the contexts of the pruned queues
  invalid,    \* the contexts of the queues without a solution
  best,       \* << >>, or << the best context so far >>
  cur,        \* the queue being processed: context, items, new items, did
  pc,         \* where the resolver is in its loop
  timedOut

resolverVars == <<pending, deferred, complete, pruned, invalid, best, cur, pc, timedOut>>
vars == <<world, request, resolverVars>>

Queue(c, items) == [context |-> c, items |-> items]
Working(c, items, did) == [context |-> c, items |-> items, new |-> <<>>, did |-> did]

-----------------------------------------------------------------------------
(* The initial queue: what is added last is processed first.               *)

RequestedInstalls(r, c) ==
  Map(LAMBDA p : NewInstall(p, {}, TRUE), InOrder({p \in r.install : ~IsPresent(c, p)}))

RequestedRemovals(r, c) ==
  Map(LAMBDA p : [UninstallItem(p) EXCEPT !.explicit = TRUE, !.removeOnly = TRUE],
      InOrder({p \in r.remove : ~IsAbsent(c, p)}))

\* Verifying the system is verifying every installed package: its requires,
\* its children, looked at as requirements, and its conflicts.
ToVerify(arrays) == {x \in world.installed \X (1..3) \X Dep : x[3] \in arrays[x[2]][x[1]]}

VerifyPosition ==
  [x \in Pkg \X (1..3) \X Dep |->
     (PkgPosition[x[1]] * 3 + x[2]) * (Len(DepSeq) + 1) + DepPosition[x[3]]]

VerifyItem(x) ==
  IF x[2] = 3 THEN ConflictItem(x[3], x[1], FALSE) ELSE RequireItem(x[3], x[1], FALSE, FALSE, NONE)

Verifications(r) ==
  LET arrays == <<world.requires, world.children, world.conflicts>>
  IN  IF r.verifying THEN Map(VerifyItem, Listed(ToVerify(arrays), VerifyPosition)) ELSE <<>>

Extras(r) ==
  Map(LAMBDA d : RequireItem(d, NONE, FALSE, FALSE, NONE), DepsInOrder(r.extraDeps))
  \o Map(LAMBDA d : ConflictItem(d, NONE, FALSE), DepsInOrder(r.extraConflicts))

InitialQueue(r) ==
  LET c == NewContext(r.verifying)
  IN  Queue(c, Reverse(RequestedInstalls(r, c) \o RequestedRemovals(r, c)
                       \o Verifications(r) \o Extras(r)))

Init ==
  /\ world \in Worlds
  /\ request \in Requests
  /\ pending = <<InitialQueue(request)>>
  /\ deferred = <<>> /\ complete = <<>> /\ pruned = <<>> /\ invalid = <<>>
  /\ best = <<>>
  /\ cur = Working(NewContext(request.verifying), <<>>, FALSE)
  /\ pc = "loop"
  /\ timedOut = FALSE

-----------------------------------------------------------------------------

PopQueue ==
  /\ pc = "loop" /\ pending # <<>>
  /\ cur' = Working(Head(pending).context, Head(pending).items, FALSE)
  /\ pending' = Tail(pending)
  /\ pc' = "process"
  /\ UNCHANGED <<world, request, deferred, complete, pruned, invalid, best, timedOut>>

\* The clock is only looked at between two queues.
Timeout ==
  /\ pc = "loop" /\ pending # <<>>
  /\ request.timeout
  /\ timedOut' = TRUE
  /\ pc' = "done"
  /\ UNCHANGED <<world, request, pending, deferred, complete, pruned, invalid, best, cur>>

\* The next item of a pass: the first of those with the highest priority.
NextItem ==
  CHOOSE i \in DOMAIN cur.items :
    /\ \A j \in DOMAIN cur.items : Priority(cur.items[j]) <= Priority(cur.items[i])
    /\ \A j \in 1..(i - 1) : Priority(cur.items[j]) < Priority(cur.items[i])

\* Take the next item, of the given type, off the queue and process it.
Step(type) ==
  /\ pc = "process" /\ cur.items # <<>> /\ ~cur.context.invalid
  /\ cur.items[NextItem].type = type
  /\ LET out == ProcessItem(cur.context, cur.items[NextItem])
     IN  /\ cur' = [context |-> out.context,
                    items   |-> RemoveAt(cur.items, NextItem),
                    new     |-> cur.new \o out.items,
                    did     |-> cur.did \/ out.did]
         /\ pc' = IF out.aborted THEN "aborted" ELSE pc
  /\ UNCHANGED <<world, request, pending, deferred, complete, pruned, invalid, best, timedOut>>

InstallStep   == Step("install")
RequireStep   == Step("require")
ConflictStep  == Step("conflict")
UninstallStep == Step("uninstall")
BranchStep    == Step("branch")

\* The items of the next pass, the last created first, without the branches
\* that contain another one; of equal branches the last stays.
NextItems(new) ==
  LET items     == Reverse(new)
      contains(i, j) == /\ items[i].type = "branch" /\ items[j].type = "branch"
                        /\ BranchContains(items[i], items[j])
      dropped   == {i \in DOMAIN items : \E j \in DOMAIN items \ {i} :
                      contains(i, j) /\ (i < j \/ ~contains(j, i))}
      kept      == Listed(DOMAIN items \ dropped, [i \in DOMAIN items |-> i])
  IN  [k \in DOMAIN kept |-> items[kept[k]]]

\* Faulty: one pass is taken to be enough.
EndPassOnce ==
  /\ pc = "process"
  /\ cur.items = <<>> \/ cur.context.invalid
  /\ cur' = Working(cur.context, NextItems(cur.new), FALSE)
  /\ pc' = "classify"
  /\ UNCHANGED <<world, request, pending, deferred, complete, pruned, invalid, best, timedOut>>

\* The end of a pass; there is another one as long as passes get somewhere.
EndPass ==
  /\ pc = "process"
  /\ cur.items = <<>> \/ cur.context.invalid
  /\ LET items == NextItems(cur.new)
     IN  /\ cur' = Working(cur.context, items, FALSE)
         /\ pc' = IF cur.did /\ ~cur.context.invalid /\ items # <<>>
                  THEN "process" ELSE "classify"
  /\ UNCHANGED <<world, request, pending, deferred, complete, pruned, invalid, best, timedOut>>

-----------------------------------------------------------------------------

\* At the end of every turn of the loop: without a solution and out of
\* pending queues, the first deferred queue becomes pending.
Turn(nextPending, nextDeferred, nextComplete) ==
  LET undefer == nextPending = <<>> /\ nextComplete = <<>> /\ nextDeferred # <<>>
  IN  /\ pc' = "loop"
      /\ complete' = nextComplete
      /\ pending' = IF undefer THEN <<Head(nextDeferred)>> ELSE nextPending
      /\ deferred' = IF undefer THEN Tail(nextDeferred) ELSE nextDeferred
      /\ UNCHANGED <<world, request, cur, timedOut>>

IsSolution == ~cur.context.invalid /\ cur.items = <<>>
IsBeaten   == best # <<>> /\ PartiallyBetter(best[1], cur.context)

Reject ==
  /\ pc = "classify" /\ cur.context.invalid
  /\ invalid' = <<cur.context>> \o invalid
  /\ Turn(pending, deferred, complete)
  /\ UNCHANGED <<pruned, best>>

\* Faulty: the last of equal solutions wins.
CompleteLast ==
  /\ pc = "classify" /\ IsSolution
  /\ best' = IF best = <<>> \/ ~Better(best[1], cur.context) THEN <<cur.context>> ELSE best
  /\ Turn(pending, deferred, <<cur.context>> \o complete)
  /\ UNCHANGED <<pruned, invalid>>

\* Of two equal solutions the first stays the best.
Complete ==
  /\ pc = "classify" /\ IsSolution
  /\ best' = IF best = <<>> \/ Better(cur.context, best[1]) THEN <<cur.context>> ELSE best
  /\ Turn(pending, deferred, <<cur.context>> \o complete)
  /\ UNCHANGED <<pruned, invalid>>

Prune ==
  /\ pc = "classify" /\ ~cur.context.invalid /\ ~IsSolution
  /\ IsBeaten
  /\ pruned' = <<cur.context>> \o pruned
  /\ Turn(pending, deferred, complete)
  /\ UNCHANGED <<invalid, best>>

Branches == {i \in DOMAIN cur.items : cur.items[i].type = "branch"}
FirstBranch == CHOOSE i \in Branches : \A j \in Branches : i <= j

\* Of two installs of one name from channels of different priority, the one
\* of the lower priority, unless it is the newer one.
ToDefer(alternatives) ==
  LET Worse(i, j) ==
        /\ i # j
        /\ alternatives[i].type = "install" /\ alternatives[j].type = "install"
        /\ LET p == alternatives[i].package  q == alternatives[j].package
           IN  /\ NameOf[p] = NameOf[q]
               /\ PriorityOf[p] < PriorityOf[q]
               /\ VersionOf[p] <= VersionOf[q]
  IN  {i \in DOMAIN alternatives : \E j \in DOMAIN alternatives : Worse(i, j)}

\* The queue with one alternative in the place of its first branch, over a
\* child context.  Penalties are negative priorities.
Alternative(item) ==
  LET copy == CopyItem(item)
      paid == IF copy.type = "install"
              THEN [copy EXCEPT !.penalty = -PriorityOf[copy.package]] ELSE copy
  IN  Queue(NewChild(cur.context),
            [i \in DOMAIN cur.items |-> IF i = FirstBranch THEN paid ELSE CopyItem(cur.items[i])])

\* Alternatives are put in front one after the other.
Split ==
  /\ pc = "classify" /\ ~cur.context.invalid /\ ~IsSolution
  /\ ~IsBeaten
  /\ LET alternatives == IF Branches = {} THEN <<>> ELSE cur.items[FirstBranch].possible
         lastFirst(I) == Reverse(Listed(I, [i \in DOMAIN alternatives |-> i]))
         queuesOf(s)  == [k \in DOMAIN s |-> Alternative(alternatives[s[k]])]
         unlikely     == ToDefer(alternatives)
     IN  Turn(queuesOf(lastFirst(DOMAIN alternatives \ unlikely)) \o pending,
              queuesOf(lastFirst(unlikely)) \o deferred,
              complete)
  /\ UNCHANGED <<pruned, invalid, best>>

Finish ==
  /\ pc = "loop" /\ pending = <<>>
  /\ pc' = "done"
  /\ UNCHANGED <<world, request, pending, deferred, complete, pruned, invalid, best, cur, timedOut>>

Terminated == pc \in {"done", "aborted"} /\ UNCHANGED vars

Work ==
  \/ PopQueue \/ Timeout \/ InstallStep \/ RequireStep \/ ConflictStep \/ UninstallStep
  \/ BranchStep \/ EndPass \/ Reject \/ Complete \/ Prune \/ Split \/ Finish

Next == Work \/ Terminated

Spec == Init /\ [][Next]_vars

\* The resolver is one thread that is never suspended.
FairSpec == Spec /\ WF_vars(Work)

=============================================================================
