--------------------------------- MODULE Queries ---------------------------------
(***************************************************************************)
(* A query over the packages of a world (rc-query.c, rc-query-packages.c): *)
(* the parts are validated, each package is matched against them, and the  *)
(* parts are given free.  Parts between begin-or and end-or are            *)
(* alternatives and all the others must hold.                              *)
(***************************************************************************)
EXTENDS Integers, Sequences, SequencesExt, FiniteSets

CONSTANTS
  Alnum,       \* the characters that are letters or digits
  Lower,       \* pairs of a character and the one g_utf8_casefold makes of it
  Package,
  Texts,       \* Texts[p][k]: what package p has for the key k of a text, or NULL
  Installed,   \* the packages that are installed
  SpecOf,      \* the spec of a package, [name, version]
  Importance,  \* of the newest update of a package, 0 for the most important
  Upgradable,  \* the packages rc_world_get_best_upgrade finds something for
  Worlds,      \* lists of packages in the order of rc_world_foreach_package
  Queries,     \* the lists of parts that are asked
  NULL

\* What the constants are, assumed wherever they are given values.
QueriesAssumption ==
  /\ Installed \subseteq Package /\ Upgradable \subseteq Package
  /\ Importance \in [Package -> Int]
  /\ \A w \in Worlds : Range(w) \subseteq Package
  /\ NULL \notin Package

VARIABLES
  parts,       \* the parts, of a record [type, key, query] each
  order,       \* the packages of the world
  next,        \* how many of them have been matched
  result,      \* what has matched, the latest first
  folded,      \* the parts that have a query_str_folded
  phase        \* "new", "refused", "matching", "ended", or "aborted" where an assertion
               \* has failed

vars == <<parts, order, next, result, folded, phase>>

TypeOK ==
  /\ parts \in Queries /\ order \in Worlds
  /\ next \in 0..Len(order)
  /\ Range(result) \subseteq Range(order)
  /\ folded \subseteq DOMAIN parts
  /\ phase \in {"new", "refused", "matching", "ended", "aborted"}

Init ==
  /\ parts \in Queries /\ order \in Worlds
  /\ next = 0 /\ result = <<>> /\ folded = {} /\ phase = "new"

-----------------------------------------------------------------------------
\* How a part compares a string with the one it asks for: a string is a sequence of
\* character codes, of which '*' is 42 and '?' is 63.

FoldedChar(c) == IF \E l \in Lower : l[1] = c THEN (CHOOSE l \in Lower : l[1] = c)[2] ELSE c
Folded(s) == [i \in DOMAIN s |-> FoldedChar(s[i])]

OccursAt(s, q, i) == i + Len(q) - 1 <= Len(s) /\ SubSeq(s, i, i + Len(q) - 1) = q

\* strstr from position i on
Found(s, q, i) == {j \in i..(Len(s) + 1) : OccursAt(s, q, j)}
First(S) == CHOOSE j \in S : \A k \in S : j <= k

\* The characters on both sides of what was found are not of a word.
WordAt(s, q, n) ==
  /\ n = 1 \/ s[n - 1] \notin Alnum
  /\ n + Len(q) > Len(s) \/ s[n + Len(q)] \notin Alnum

\* strstr_word: hay is where the search goes on.
HasWord(s, q) ==
  LET from[hay \in 1..(Len(s) + 1)] ==
        /\ hay <= Len(s)
        /\ Found(s, q, hay) # {}
        /\ WordAt(s, q, First(Found(s, q, hay))) \/ from[hay + 1]
  IN from[1]

\* g_pattern_match_simple: what the pattern has left at i, the string at j.
Glob(p, s) ==
  LET rest[i \in 1..(Len(p) + 1), j \in 1..(Len(s) + 1)] ==
        IF i > Len(p) THEN j > Len(s)
        ELSE IF p[i] = 42 THEN rest[i + 1, j] \/ (j <= Len(s) /\ rest[i, j + 1])
        ELSE j <= Len(s) /\ p[i] \in {63, s[j]} /\ rest[i + 1, j + 1]
  IN rest[1, 1]

\* strcmp
Before(s, t) ==
  \/ IsStrictPrefix(s, t)
  \/ \E i \in DOMAIN s \cap DOMAIN t :
       s[i] < t[i] /\ SubSeq(s, 1, i - 1) = SubSeq(t, 1, i - 1)
Strcmp(s, t) == IF s = t THEN 0 ELSE IF Before(s, t) THEN -1 ELSE 1

\* rc_query_type_int_compare; the types of a search are turned away or, for words, end in an
\* assertion.
IntCompare(type, x, y) ==
  CASE type = "eq" -> x = y   [] type = "ne" -> x # y
    [] type = "gt" -> x > y   [] type = "lt" -> x < y
    [] type = "gteq" -> x >= y [] type = "lteq" -> x <= y
    [] OTHER -> FALSE

\* rc_query_match_string
MatchString(type, q, s) ==
  CASE type = "contains" -> Found(s, q, 1) # {}
    [] type = "!contains" -> Found(s, q, 1) = {}
    [] type = "contains_word" -> HasWord(s, q)
    [] type = "!contains_word" -> ~HasWord(s, q)
    [] OTHER -> \/ IntCompare(type, Strcmp(q, s), 0)
                \/ IntCompare(type, IF Glob(q, s) THEN 1 ELSE 0, 1)

\* rc_query_match_string_ci
MatchStringCi(type, q, s) == MatchString(type, Folded(q), Folded(s))

-----------------------------------------------------------------------------
\* The engine of rc-query-packages.c.

TextKeys == {"name", "summary", "description", "text", "channel"}
BoolKeys == {"installed", "name-installed", "package-installed", "needs_upgrade"}

\* rc_query_validate_bool
ValidBool(part) == part.type \in {"eq", "ne"} /\ part.query \in {"true", "false"}

\* lookup_engine, with the validation of the engine that is found; importances are
\* numbers, and a name that is none of them is NULL.
ValidPart(part) ==
  \/ part.key \in TextKeys
  \/ part.key \in BoolKeys /\ ValidBool(part)
  \/ part.key = "importance" /\ part.query # NULL

\* The texts of a package that a key looks at (name_match, summary_match, description_match,
\* text_match, channel_match).
TextsOf(p, key) ==
  {t \in (IF key = "text" THEN {Texts[p][k] : k \in {"name", "summary", "description"}}
                          ELSE {Texts[p][key]}) : t # NULL}

SystemPackages == Range(order) \cap Installed

\* package_installed_match: the package itself, or an installed one of the same spec.
PackageInstalled(p) == p \in Installed \/ \E q \in SystemPackages : SpecOf[q] = SpecOf[p]

\* What is true or false of a package (installed_match, name_installed_match,
\* package_installed_match, needs_upgrade_match).
IsTrue(p, key) ==
  CASE key = "installed" -> p \in Installed
    [] key = "name-installed" -> \E q \in SystemPackages : SpecOf[q].name = SpecOf[p].name
    [] key = "package-installed" -> PackageInstalled(p)
    [] key = "needs_upgrade" -> p \in Installed /\ p \in Upgradable

MatchBool(part, val) == (part.type = "eq") = ((part.query = "true") = val)

\* importance_match: the importance asked for comes first, and smaller ones are of more.
ImportanceMatch(part, p) ==
  p \notin Installed /\ IntCompare(part.type, part.query, Importance[p])

\* The match of an engine.
Matches(part, p) ==
  \/ part.key \in TextKeys /\ \E t \in TextsOf(p, part.key) : MatchStringCi(part.type, part.query, t)
  \/ part.key \in BoolKeys /\ MatchBool(part, IsTrue(p, part.key))
  \/ part.key = "importance" /\ ImportanceMatch(part, p)

-----------------------------------------------------------------------------
\* rc-query.c

Begins(n) == Cardinality({i \in 1..n : parts[i].type = "begin-or"})
Ends(n) == Cardinality({i \in 1..n : parts[i].type = "end-or"})
IsOr(part) == part.type \in {"begin-or", "end-or"}

\* rc_query_begin
Accepted ==
  /\ \A i \in DOMAIN parts :
       /\ Begins(i) - Ends(i) \in {0, 1}
       /\ IsOr(parts[i]) \/ ValidPart(parts[i])
  /\ Begins(Len(parts)) = Ends(Len(parts))

\* The state of rc_query_match after part i: still alive, within an or, with so many
\* alternatives of which one has held.
NewOr == [inOr |-> FALSE, count |-> 0, held |-> FALSE, alive |-> TRUE]

\* Faulty: or_val is not reset where a group begins.
AfterPartKeeping(s, part, p) ==
  CASE ~s.alive -> s
    [] part.type = "begin-or" -> [s EXCEPT !.inOr = TRUE, !.count = 0]
    [] part.type = "end-or" -> [s EXCEPT !.inOr = FALSE, !.alive = s.count = 0 \/ s.held]
    [] s.inOr -> [s EXCEPT !.count = @ + 1, !.held = @ \/ Matches(part, p)]
    [] OTHER -> [s EXCEPT !.alive = Matches(part, p)]

AfterPart(s, part, p) ==
  CASE ~s.alive -> s
    [] part.type = "begin-or" -> [s EXCEPT !.inOr = TRUE, !.count = 0, !.held = FALSE]
    [] part.type = "end-or" -> [s EXCEPT !.inOr = FALSE, !.alive = s.count = 0 \/ s.held]
    [] s.inOr -> [s EXCEPT !.count = @ + 1, !.held = @ \/ Matches(part, p)]
    [] OTHER -> [s EXCEPT !.alive = Matches(part, p)]

\* rc_query_match
QueryMatch(p) ==
  LET after[i \in 0..Len(parts)] == IF i = 0 THEN NewOr ELSE AfterPart(after[i - 1], parts[i], p)
  IN after[Len(parts)].alive

\* The parts whose match is called for a package.
Called(p) ==
  LET after[i \in 0..Len(parts)] == IF i = 0 THEN NewOr ELSE AfterPart(after[i - 1], parts[i], p)
  IN {i \in DOMAIN parts : ~IsOr(parts[i]) /\ after[i - 1].alive}

\* The ones of them that fold what they ask for, and those that compare an importance
\* with a type that rc_query_type_int_compare has no case for.
Folding(p) == {i \in Called(p) : parts[i].key \in TextKeys /\ TextsOf(p, parts[i].key) # {}}
Unhandled(p) == {i \in Called(p) : /\ parts[i].key = "importance" /\ p \notin Installed
                                   /\ parts[i].type \in {"contains_word", "!contains_word"}}

Begin ==
  /\ phase = "new"
  /\ phase' = IF Accepted THEN "matching" ELSE "refused"
  /\ UNCHANGED <<parts, order, next, result, folded>>

\* match_package_fn
Match ==
  /\ phase = "matching" /\ next < Len(order)
  /\ next' = next + 1
  /\ LET p == order[next'] IN
       /\ result' = IF QueryMatch(p) THEN <<p>> \o result ELSE result
       /\ folded' = folded \cup Folding(p)
       /\ phase' = IF Unhandled(p) = {} THEN phase ELSE "aborted"
  /\ UNCHANGED <<parts, order>>

\* rc_query_end, which stops at the first part without a key, and the end of
\* rc_query_packages
End ==
  /\ phase = "matching" /\ next = Len(order)
  /\ phase' = "ended"
  /\ folded' = {i \in folded : \E j \in 1..i : parts[j].key = NULL}
  /\ result' = Reverse(result)
  /\ UNCHANGED <<parts, order, next>>

Next == Begin \/ Match \/ End

Spec == Init /\ [][Next]_vars

-----------------------------------------------------------------------------
\* Properties

\* Where a group begins, the place where it ends.
GroupEnd(i) == CHOOSE j \in (i + 1)..Len(parts) :
                 parts[j].type = "end-or" /\ \A k \in (i + 1)..(j - 1) : parts[k].type # "end-or"

\* The sets of parts of which one has to hold: a part on its own, or the parts of a group.
Clauses ==
  LET groups == {(i + 1)..(GroupEnd(i) - 1) : i \in {j \in DOMAIN parts : parts[j].type = "begin-or"}}
      alone == {i \in DOMAIN parts : ~IsOr(parts[i]) /\ \A g \in groups : i \notin g}
  IN (groups \ {{}}) \cup {{i} : i \in alone}

\* What a query returns (rc_query_packages) are the packages, in the order of the world, for
\* which every part holds and, of every group that is not empty, one of its
\* parts.
SelectsWhatMatches ==
  phase = "ended" =>
    result = SelectSeq(order, LAMBDA p : \A c \in Clauses : \E i \in c : Matches(parts[i], p))

\* A query is refused exactly when it has a part that cannot be matched, or when its parts fall
\* into no groups: some end-or has no begin-or before it, or between two
\* begin-or or after the last there is no end-or (rc_query_begin).
RefusesIllFormed ==
  phase # "new" =>
    LET at(type) == {i \in DOMAIN parts : parts[i].type = type}
        opened(j) == {i \in at("begin-or") : i < j}
        wellFormed ==
          /\ Cardinality(at("begin-or")) = Cardinality(at("end-or"))
          /\ \A j \in at("end-or") :
               Cardinality(opened(j)) = Cardinality({i \in at("end-or") : i <= j})
          /\ \A j \in at("begin-or") :
               Cardinality(opened(j)) = Cardinality({i \in at("end-or") : i < j})
        known(part) ==
          CASE IsOr(part) -> TRUE
            [] part.key \in BoolKeys -> /\ part.query \in {"true", "false"}
                                        /\ part.type \notin {"gt", "lt", "gteq", "lteq"}
            [] part.key = "importance" -> part.query # NULL
            [] OTHER -> part.key \in TextKeys
    IN (phase = "refused") = ~(wellFormed /\ \A i \in DOMAIN parts : known(parts[i]))

\* Asking for an importance of at least some one (">=") finds no installed package and
\* leaves out no update of that or of greater importance (importance_match).
ImportantOnesAreFound ==
  phase = "ended" => \A i \in DOMAIN parts :
    parts = <<parts[i]>> /\ parts[i].key = "importance" /\ parts[i].type = "gteq" =>
      Range(result) = {p \in Range(order) \ Installed : Importance[p] <= parts[i].query}

\* At the end of a query no part holds a folded string any more: "The query_parts array should be
\* terminated by type RC_QUERY_LAST" (rc-query.h).
FoldedAreFreed == phase = "ended" => folded = {}

\* A comparison of numbers is only asked for with a type it has a case for: the
\* g_assert_not_reached () of rc_query_type_int_compare is not reached.
NotReached == phase # "aborted"
=============================================================================
