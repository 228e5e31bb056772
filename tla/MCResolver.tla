------------------------------ MODULE MCResolver ------------------------------
(***************************************************************************)
(* Instances of the resolver, five kinds of them: upgrades that break, or  *)
(* are broken by, requirements, conflicts and obsoletes; choices between   *)
(* providers; verifications; requirements of several packages that lose    *)
(* the same provider; and versions of a package that are there in          *)
(* parallel.  They share a universe of packages.                           *)
(***************************************************************************)
EXTENDS ResolverProperties

\* Three versions of a, two of b, packages c and d, and a set s; then p in two versions from
\* channels of different priority, q in two versions, one of them from two channels, and r, x
\* and y.
MCPkgSeq == <<"a1", "a2", "a3", "b1", "b2", "c1", "d1", "s1",
              "p1", "p2", "q0", "q1", "q1x", "r1", "x1", "y1">>
MCPkg == {MCPkgSeq[i] : i \in DOMAIN MCPkgSeq}

MCNameOf ==
  [k \in MCPkg |-> CASE k \in {"a1", "a2", "a3"} -> "a" [] k \in {"b1", "b2"} -> "b"
                     [] k \in {"p1", "p2"} -> "p" [] k \in {"q0", "q1", "q1x"} -> "q" [] OTHER -> k]
MCVersionOf ==
  [k \in MCPkg |-> CASE k = "a3" -> 3 [] k \in {"a2", "b2", "p2"} -> 2 [] k = "q0" -> 0 [] OTHER -> 1]
MCPriorityOf ==
  [k \in MCPkg |-> CASE k \in {"a3", "b2", "p1", "q1x"} -> 1 [] k \in {"r1", "x1", "y1", "q1"} -> 3
                     [] OTHER -> 2]
MCSizeOf == [k \in MCPkg |-> IF k \in {"a2", "p1"} THEN 2 ELSE 1]

\* f is something a and d provide; v and w are provided by several packages.
MCDepSeq == <<"f", "a", "a=1", "a=2", "b", "b=1", "b=2", "c=1", "d",
              "v", "w", "p", "q=1", "r=1", "p=1">>
MCDep == {MCDepSeq[i] : i \in DOMAIN MCDepSeq}

MCProviders ==
  [d \in MCDep |-> CASE d = "f" -> {"a1", "d1"} [] d = "a" -> {"a1", "a2", "a3"}
                     [] d = "a=1" -> {"a1"} [] d = "a=2" -> {"a2"}
                     [] d = "b" -> {"b1", "b2"} [] d = "b=1" -> {"b1"} [] d = "b=2" -> {"b2"}
                     [] d = "c=1" -> {"c1"} [] d = "d" -> {"d1"}
                     [] d = "v" -> {"p1", "p2", "q1", "q1x"} [] d = "w" -> {"q1", "q1x", "r1"}
                     [] d = "p" -> {"p1", "p2"} [] d = "q=1" -> {"q1", "q1x"}
                     [] d = "r=1" -> {"r1"} [] d = "p=1" -> {"p1"}]
MCExactProviders ==
  [d \in MCDep |-> IF d \in {"f", "a", "b", "d", "v", "w", "p"} THEN {} ELSE MCProviders[d]]
MCOwnProviders ==
  [d \in MCDep |-> CASE d = "f" -> {"a1"} [] d \in {"v", "w"} -> {} [] OTHER -> MCProviders[d]]

ASSUME SpecsAssumption == SpecsProvideAlike

\* The dependencies of each package, from pairs of a package and a dependency.
With(pairs) == [p \in MCPkg |-> {x[2] : x \in {y \in pairs : y[1] = p}}]

World(installed, locked, requires, children, conflicts, obsoletes) ==
  [installed |-> installed, locked |-> locked, requires |-> With(requires),
   children |-> With(children), conflicts |-> With(conflicts), obsoletes |-> With(obsoletes)]

Request(install, remove) ==
  [install |-> install, remove |-> remove, extraDeps |-> {}, extraConflicts |-> {},
   verifying |-> FALSE, timeout |-> FALSE]

-----------------------------------------------------------------------------
UpgradeWorlds ==
  {World(i, l, r, {<<"s1", "c=1">>}, x, o) :
     i \in {{}, {"a1", "b1"}, {"a1", "b1", "c1"}, {"a1", "b1", "c1", "s1"}},
     l \in {{}, {"b1"}},
     r \in SUBSET {<<"a2", "b=2">>, <<"b1", "a=1">>, <<"c1", "a">>, <<"c1", "b">>},
     x \in {{}, {<<"c1", "b=2">>}, {<<"a2", "b=1">>}},
     o \in {{}, {<<"b2", "a=1">>}}}

UpgradeRequests ==
  {Request(i, r) : i \in {{"a2"}, {"a2", "c1"}, {"b2"}, {"s1"}}, r \in {{}, {"b1"}}}
  \cup {Request({}, r) : r \in {{"a1"}, {"s1"}}}
  \cup {[Request({}, {}) EXCEPT !.extraDeps = {d}] : d \in {"a", "b"}}

BranchWorlds ==
  {World(i, l, r, {}, x, {}) :
     i \in {{}, {"p1"}, {"x1", "p1"}},
     l \in {{}, {"q1"}},
     r \in SUBSET {<<"x1", "v">>, <<"y1", "w">>, <<"y1", "v">>, <<"r1", "v">>, <<"q1", "p=1">>},
     x \in {{}, {<<"x1", "q=1">>}, {<<"p2", "r=1">>}}}

BranchRequests ==
  {[Request({"x1", "y1"}, r) EXCEPT !.timeout = t] : r \in {{}, {"p1"}}, t \in BOOLEAN}
  \cup {[Request({"y1"}, {}) EXCEPT !.extraDeps = d, !.extraConflicts = c] :
          d \in {{}, {"v", "w"}}, c \in {{}, {"r=1"}}}
  \cup {[Request({"r1"}, {}) EXCEPT !.extraDeps = {"p"}]}

VerifyWorlds ==
  {World(i, l, r, k, x, {}) :
     i \in {{"b1"}, {"b1", "c1"}, {"b1", "c1", "s1"}, {"a1", "c1", "d1", "s1"}, {"b1", "b2"}},
     l \in {{}, {"c1"}},
     r \in SUBSET {<<"b1", "f">>, <<"c1", "b=1">>, <<"c1", "d">>, <<"a1", "b">>},
     k \in {{}, {<<"s1", "c=1">>, <<"s1", "b=1">>}},
     x \in {{}, {<<"c1", "f">>}, {<<"b1", "c=1">>}, {<<"a1", "b=1">>}}}

VerifyRequests ==
  {[Request(i, r) EXCEPT !.verifying = TRUE] : i \in {{}, {"b2", "d1"}}, r \in {{}, {"a1"}}}
  \cup {Request(i, {"s1"}) : i \in {{}, {"a1"}}}

\* Requirements of several packages that meet in one branch.  p and q both provide what x and
\* y require; p is going, and so is what one of x and y needs besides; or the upgrades of the
\* old version of q are among the providers.
SharedWorlds ==
  {World({"p1", "x1", "y1", "c1", "d1"}, {}, {<<"x1", "v">>, <<"y1", "v">>, <<"c1", "d">>} \cup r,
         {}, {<<"s1", "p=1">>, <<"s1", "d">>}, {}) :
     r \in SUBSET {<<"x1", "c=1">>, <<"y1", "c=1">>, <<"s1", "w">>}}
  \cup {World({"b1", "q0", "q1"}, {}, {<<"q0", "b=1">>, <<"q1x", "c=1">>} \cup r,
              {}, {<<"x1", "c=1">>}, {}) : r \in SUBSET {<<"s1", "v">>, <<"s1", "p">>}}

SharedRequests == {Request({"s1"}, {}), Request({"p2", "s1"}, {}), Request({"b2", "s1", "x1"}, {"q1"})}

\* Versions of a that are installed or asked for side by side, and require versions of b.
ParallelWorlds ==
  {World(i, {}, {<<"a1", "b=1">>} \cup r, {}, x, {}) :
     i \in {{"a1", "a2", "b1"}, {"a1", "a2", "a3", "b1"}, {"a1", "b1"}},
     r \in SUBSET {<<"a2", "b=1">>, <<"a3", "b=2">>},
     x \in {{}, {<<"b2", "a=1">>}}}

ParallelRequests == {Request(i, {}) : i \in {{"b2"}, {"a2", "b2"}}}

MCWorlds == UpgradeWorlds \cup BranchWorlds \cup VerifyWorlds \cup SharedWorlds \cup ParallelWorlds
MCRequests ==
  UpgradeRequests \cup BranchRequests \cup VerifyRequests \cup SharedRequests \cup ParallelRequests

\* Requests of a kind with worlds of it.
MCInit ==
  /\ Init
  /\ \/ world \in UpgradeWorlds /\ request \in UpgradeRequests
     \/ world \in BranchWorlds /\ request \in BranchRequests
     \/ world \in VerifyWorlds /\ request \in VerifyRequests
     \/ world \in SharedWorlds /\ request \in SharedRequests
     \/ world \in ParallelWorlds /\ request \in ParallelRequests

\* The fairness of FairSpec, WF_vars(Work), as the loop has work until it has ended: that this is
\* so the run shows too, as it looks for deadlocks.
KeepsWorking == []<>(pc \in {"done", "aborted"}) \/ []<><<TRUE>>_vars

MCSpec == MCInit /\ [][Next]_vars /\ KeepsWorking

\* c conflicts with the version of b that the upgrade of a requires.
LostUpgradeWorlds ==
  {World({"a1", "b1"}, {}, {<<"a2", "b=2">>}, {}, {<<"c1", "b=2">>}, {})}
LostUpgradeRequests == {Request({"a2", "c1"}, {})}
===============================================================================
