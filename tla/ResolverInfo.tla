------------------------------ MODULE ResolverInfo ------------------------------
(***************************************************************************)
(* What the resolver tells the user about a solution (rc-resolver-info.c,  *)
(* and the log of rc-resolver-context.c): every context of a chain logs    *)
(* infos, and at the end those of the whole chain are collected, merged,   *)
(* and the ones that have to do with an error are marked as important.     *)
(*                                                                         *)
(* An info is a record [type, package, list, req, msg, error, priority].   *)
(***************************************************************************)
EXTENDS Naturals, Sequences, SequencesExt, FiniteSets

CONSTANTS
  Package, NameOf,
  Info,        \* the infos that items log
  Marking,     \* the info "Marking this resolution attempt as invalid."
  NULL,
  MaxInfos, MaxLevels   \* bounds on the log and on the chain

\* What rc_resolver_info_misc_new makes, with the packages that are related and the flag for an
\* error that its callers add.
IsMisc(i) ==
  /\ i.type = "misc" /\ i.msg # NULL /\ i.req = NULL
  /\ i.package \in Package \cup {NULL} /\ i.list \subseteq Package

\* What the makers of the other types make (rc_resolver_info_needed_by_new to
\* rc_resolver_info_missing_req_new).
IsOfPackage(i) ==
  /\ i.package \in Package /\ i.msg = NULL /\ ~i.error
  /\ i.list \subseteq Package
  /\ CASE i.type \in {"depends_on", "child_of"} -> i.req = NULL /\ i.list # {}
       [] i.type \in {"needed_by", "conflicts_with", "obsoletes"} -> i.req = NULL
       [] i.type = "missing_req" -> i.req # NULL /\ i.list = {}

\* What the constants are, assumed wherever they are given values.
InfoAssumption ==
  /\ DOMAIN NameOf = Package /\ NULL \notin Package
  /\ \A i \in Info : IF i.type = "misc" THEN IsMisc(i) ELSE IsOfPackage(i)
  /\ Marking.error /\ Marking.package = NULL /\ Marking.list = {}

VARIABLES
  chain,       \* the logs of a context and its parents, each with the latest info first
  invalid      \* whether the context is invalid

vars == <<chain, invalid>>

TypeOK ==
  /\ chain \in Seq(Seq(Info \cup {Marking})) /\ chain # <<>>
  /\ invalid \in BOOLEAN
  /\ \A log \in Range(chain) : Cardinality({k \in DOMAIN log : log[k] = Marking}) <= 1

Init == chain = <<<<>>>> /\ invalid = FALSE

Logged == FlattenSeq(chain)

\* Faulty: an error is logged and the context goes on.
AddInfoOnly(i) ==
  /\ Len(Logged) < MaxInfos
  /\ chain' = [chain EXCEPT ![1] = <<i>> \o @]
  /\ UNCHANGED invalid

\* rc_resolver_context_add_info
AddInfo(i) ==
  /\ Len(Logged) < MaxInfos
  /\ chain' = [chain EXCEPT ![1] = IF i.error /\ ~invalid THEN <<Marking, i>> \o @ ELSE <<i>> \o @]
  /\ invalid' = (invalid \/ i.error)

\* rc_resolver_context_new_child; an invalid context has no children.
NewChild ==
  /\ ~invalid /\ Len(chain) < MaxLevels
  /\ chain' = <<<<>>>> \o chain
  /\ UNCHANGED invalid

Next == NewChild \/ \E i \in Info : AddInfo(i)

Spec == Init /\ [][Next]_vars

-----------------------------------------------------------------------------
\* Infos.

IsAbout(i, p) == i.package # NULL /\ NameOf[i.package] = NameOf[p]
Mentions(i, p) == IsAbout(i, p) \/ \E q \in i.list : NameOf[q] = NameOf[p]

\* Whether rc_resolver_info_merge takes j into i.
Merges(i, j) ==
  /\ i.type = j.type /\ i.package = j.package
  /\ i.type = "misc" => i.msg # NULL /\ i.msg = j.msg

\* The info at k with the packages of those that are merged into it.
MergedAt(s, k) ==
  [s[k] EXCEPT !.list = IF s[k].type = "misc" THEN @
                        ELSE @ \cup UNION {s[j].list : j \in {l \in (k + 1)..Len(s) : Merges(s[k], s[l])}}]

\* The first part of rc_resolver_context_foreach_info: the infos about a package, or about all,
\* from the oldest to the latest.
Collected(package, priority) ==
  SelectSeq(Reverse(Logged),
            LAMBDA i : (package = NULL \/ i.package = package) /\ i.priority >= priority)

\* The second part: what cannot be merged into an earlier info is left.
Merged(s) ==
  LET kept == {k \in DOMAIN s : \A j \in 1..(k - 1) : ~Merges(s[j], s[k])}
  IN [n \in 1..Cardinality(kept) |->
        MergedAt(s, CHOOSE k \in kept : Cardinality({j \in kept : j <= k}) = n)]

ErrorPackages(s) ==
  UNION {s[k].list \cup ({s[k].package} \ {NULL}) : k \in {l \in DOMAIN s : s[l].error}}

\* mark_important_info: passes over the infos, that go on for as long as one does something.
\* The result is the infos for which rc_resolver_info_is_important.
Marked(s) ==
  LET one(m, k) ==   \* m = [infos, packages]
        IF k \notin m.infos /\ (\/ \E p \in ErrorPackages(s) : Mentions(s[k], p)
                                \/ \E p \in m.packages : IsAbout(s[k], p))
        THEN [infos |-> m.infos \cup {k}, packages |-> m.packages \cup s[k].list]
        ELSE m
      after[n \in 0..Len(s)] ==
        IF n = 0 THEN [infos |-> {k \in DOMAIN s : s[k].error}, packages |-> {}]
        ELSE FoldLeft(one, after[n - 1], [k \in DOMAIN s |-> k])
  IN after[Len(s)].infos

\* rc_resolver_context_foreach_info: what the callback is given.
Reported(package, priority) == Merged(Collected(package, priority))

-----------------------------------------------------------------------------
\* Properties

\* What is important: the errors, what mentions a package of an error, and what is about a
\* package in the list of one that is important and no error; no more and no less, the
\* smallest set with these.  The package that an important info is itself about does not
\* count (rc-resolver-context.c:1045), so that this is less than the rules say that stand
\* above mark_important_info: see FollowsTheRules.
MarksTheSmallestSet ==
  LET s == Reported(NULL, 0)
      closed(m) == \A k \in DOMAIN s :
        \/ k \in m
        \/ /\ ~s[k].error
           /\ ~\E p \in ErrorPackages(s) : Mentions(s[k], p)
           /\ ~\E j \in {l \in m : ~s[l].error} : \E p \in s[j].list : IsAbout(s[k], p)
  IN /\ closed(Marked(s))
     /\ \A m \in SUBSET (DOMAIN s) : closed(m) => Marked(s) \subseteq m

\* "(2) An info item is about an important-package is important", where "a package mentioned by
\* an important info" is one (the comment on mark_important_info).  It does not hold.
FollowsTheRules ==
  LET s == Reported(NULL, 0)
  IN \A k \in DOMAIN s : \A j \in Marked(s) :
       (\E p \in Package : Mentions(s[j], p) /\ IsAbout(s[k], p)) => k \in Marked(s)

Old == Reverse(Logged)

\* The oldest info that the one at n would be merged with, or itself.
OldestLike(n) ==
  CHOOSE k \in 1..n : /\ k = n \/ Merges(Old[k], Old[n])
                      /\ \A j \in 1..(k - 1) : ~Merges(Old[j], Old[n])

\* A context is invalid exactly when one of the infos that are logged for it is an error.  Then
\* an error is reported, and each text of an error, as important - unless the same text had
\* been logged for the same package before, and not as an error.
InvalidIsExplained ==
  LET s == Reported(NULL, 0)
      Important(i) == \E n \in Marked(s) : s[n].error /\ s[n].package = i.package /\ s[n].msg = i.msg
  IN /\ invalid = (\E i \in Range(chain[1]) : i.error)
     /\ invalid => Important(Marking)
     /\ \A n \in DOMAIN Old : Old[n].error /\ Old[OldestLike(n)].error => Important(Old[n])

\* Each error is reported as one.  It does not hold: what is merged into an earlier info of
\* its text is one if that was one (rc-resolver-info.c:96).
ErrorsAreReported ==
  \A i \in Range(Logged) : i.error =>
    \E j \in Range(Reported(NULL, 0)) : j.error /\ j.package = i.package /\ j.msg = i.msg

\* Whatever was logged about a package is reported for it, by one info of the kind in the place
\* of the oldest one, and with the packages it names; but a text is told once, with those it
\* named first, and a package misses the requirement it missed first (foreach_info,
\* rc_resolver_info_merge).
NamesAreReported ==
  LET old == Old
      oldest == [n \in DOMAIN old |-> OldestLike(n)]
  IN \A p \in Package \cup {NULL} :
       LET s == Reported(p, 0)
           place == [m \in DOMAIN s |->
                       CHOOSE n \in Range(oldest) : old[n] = s[m] \/ Merges(old[n], s[m])]
           Told(n) == \E m \in DOMAIN s :
                        /\ place[m] = oldest[n]
                        /\ s[m].req = old[oldest[n]].req
                        /\ IF old[n].type = "misc" THEN s[m].list = old[oldest[n]].list
                           ELSE old[n].list \subseteq s[m].list
       IN /\ \A n \in DOMAIN old : p = NULL \/ old[n].package = p => Told(n)
          /\ \A m, n \in DOMAIN s : m < n => place[m] < place[n]

\* "Assemble a list of copies of all of the info objects": what is logged as missing is
\* reported as missing.  It does not hold (rc-resolver-info.c:89).
RequirementsAreReported ==
  \A i \in Range(Logged) : i.req # NULL =>
    \E j \in Range(Reported(NULL, 0)) : j.package = i.package /\ j.req = i.req
=============================================================================
