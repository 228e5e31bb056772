-------------------------------- MODULE MCTexts --------------------------------
(***************************************************************************)
(* Instances of the modules that compare, read, write and report: versions *)
(* and dependencies, the XML of a channel, other files of packages,        *)
(* queries, and what the resolver tells of a solution.  One part runs in   *)
(* each behaviour, and the others stay as they are at first.               *)
(***************************************************************************)
EXTENDS Naturals, Sequences, SequencesExt, FiniteSets

CONSTANTS ABSENT, null,  \* strings and packages that are NULL
          Parts          \* what runs

VARIABLES
  part,
  a, b, x, y, z,                               \* Versions
  document, todo, ctx, done,                   \* XmlSax
  packages, list, directory,                   \* PackageFiles
  parts, order, next, result, folded, phase,   \* Queries
  asked, text,                                 \* a question and a text
  chain, invalid                               \* ResolverInfo

-----------------------------------------------------------------------------
\* Versions: short strings of digits, a letter and a separator, and specs with and without
\* an epoch, of the versions 1, 1.0, 10 and a.
SpecsWith(epochs, versions, releases) ==
  {[hasEpoch |-> e[1], epoch |-> e[2], version |-> v, release |-> r] :
     e \in epochs, v \in versions, r \in releases}

Bare        == SpecsWith({<<FALSE, 0>>}, {<<>>}, {ABSENT})
Released    == SpecsWith({<<FALSE, 0>>, <<TRUE, 0>>, <<TRUE, 1>>, <<TRUE, 12>>},
                         {<<49>>, <<49, 46, 48>>, <<49, 48>>, <<97>>}, {<<49>>, <<50>>})
TwoVersions == SpecsWith({<<FALSE, 0>>, <<TRUE, 0>>, <<TRUE, 1>>}, {<<49>>, <<49, 48>>},
                         {ABSENT, <<49>>, <<50>>})

AllRelations == SUBSET {"lt", "eq", "gt"} \ {{"lt", "eq", "gt"}}

RpmStrings == INSTANCE Versions WITH
  IntBits <- 16, AlwaysVerifyRelease <- FALSE, IgnoreAbsentEpochs <- TRUE,
  ProvideAllVersions <- TRUE, Chars <- {48, 49, 97, 46}, MaxLen <- 4, Specs <- Bare,
  Relations <- {}, Junk <- {}
DebStrings == INSTANCE Versions WITH
  IntBits <- 16, AlwaysVerifyRelease <- TRUE, IgnoreAbsentEpochs <- FALSE,
  ProvideAllVersions <- FALSE, Chars <- {48, 49, 97, 43}, MaxLen <- 4, Specs <- Bare,
  Relations <- {}, Junk <- {}
RpmSpecs == INSTANCE Versions WITH
  IntBits <- 16, AlwaysVerifyRelease <- FALSE, IgnoreAbsentEpochs <- TRUE,
  ProvideAllVersions <- TRUE, Chars <- {}, MaxLen <- 0, Specs <- Released,
  Relations <- AllRelations, Junk <- {}
DebSpecs == INSTANCE Versions WITH
  IntBits <- 16, AlwaysVerifyRelease <- TRUE, IgnoreAbsentEpochs <- FALSE,
  ProvideAllVersions <- FALSE, Chars <- {}, MaxLen <- 0, Specs <- TwoVersions,
  Relations <- AllRelations, Junk <- {0, 7}

-----------------------------------------------------------------------------
\* Documents of one or two packages as channels have them, and elements that are nested in
\* any way.
Tree == INSTANCE XmlTree

NoDep == <<>>

Dep(name, rel) ==
  [Tree!Element("dep", <<>>) EXCEPT
     !.attrs = [at \in IF rel = NoDep THEN {"name"} ELSE {"name", "rel"} |->
                 IF at = "name" THEN name ELSE rel]]

Obsoleting(e) ==
  [e EXCEPT !.attrs = [at \in DOMAIN e.attrs \cup {"obsoletes"} |->
                        IF at = "obsoletes" THEN <<1>> ELSE e.attrs[at]]]

Update(v, size) ==
  Tree!Element("update", <<Tree!TextElement("version", v), Tree!TextElement("filesize", size)>>)

\* Histories, with the version and the size of the newest.
Histories ==
  { [updates |-> <<>>, version |-> <<4>>, size |-> <<3>>],
    [updates |-> <<Update(<<0, 1, 0>>, <<3>>)>>, version |-> <<1>>, size |-> <<3>>],
    [updates |-> <<Update(<<1>>, <<3>>), Update(<<1, 2>>, <<5>>)>>,
     version |-> <<1, 2>>, size |-> <<5>>],
    [updates |-> <<Update(<<3>>, <<5>>), Update(<<1>>, <<3>>), Update(<<2>>, <<6>>)>>,
     version |-> <<3>>, size |-> <<5>>],
    [updates |-> <<Update(<<2>>, <<5>>), Update(<<1>>, <<3>>), Update(<<2>>, <<6>>)>>,
     version |-> <<2>>, size |-> <<5>>] }

Provides(h) ==
  Tree!Element("provides", <<Dep(<<2>>, <<"=", <<7>>>>), Dep(<<1>>, <<"=", h.version>>)>>)

Contents ==
  { <<>>,
    <<Tree!Element("requires", <<Dep(<<3>>, NoDep), Dep(<<4>>, <<">=", <<1>>>>)>>)>>,
    <<Tree!Element("requires",
        <<Tree!Element("or", <<Dep(<<3>>, NoDep), Dep(<<4>>, NoDep)>>), Dep(<<5>>, NoDep)>>),
      Tree!Element("recommends", <<Dep(<<3>>, NoDep)>>)>>,
    <<Tree!Element("conflicts", <<Dep(<<3>>, NoDep), Obsoleting(Dep(<<4>>, NoDep))>>),
      Tree!Element("obsoletes", <<Dep(<<5>>, NoDep), Dep(<<6>>, NoDep)>>)>>,
    <<Obsoleting(Tree!Element("conflicts", <<Dep(<<3>>, NoDep), Dep(<<4>>, NoDep)>>)),
      Tree!Element("suggests", <<Dep(<<3>>, NoDep)>>)>>,
    <<Tree!Element("requires", <<Dep(<<3>>, NoDep)>>),
      Tree!Element("children", <<Dep(<<4>>, NoDep)>>),
      Tree!Element("requires", <<Dep(<<5>>, NoDep)>>)>> }

\* What an element says of its own of the version and the size: nothing of the version, the
\* same as the history, or something else.
PackageElement(h, contents, own, wrapped) ==
  Tree!Element("package",
    <<Tree!TextElement("name", <<1>>)>>
    \o Tree!Given(own # "none",
                  Tree!TextElement("version", IF own = "other" THEN <<8>> ELSE h.version))
    \o <<Tree!TextElement("filesize", IF own = "other" THEN <<7>> ELSE h.size)>>
    \o Tree!Given(own # "none", Tree!Element("install_only", <<>>))
    \o Tree!Given(h.updates # <<>>, Tree!Element("history", h.updates))
    \o (IF wrapped THEN <<Tree!Element("deps", Append(contents, Provides(h)))>>
        ELSE <<Provides(h)>> \o contents))

PackageElements ==
  { PackageElement(h, c, own, wrapped) :
      h \in Histories, c \in Contents, own \in {"none", "same", "other"}, wrapped \in BOOLEAN }

FirstElement ==
  PackageElement([updates |-> <<Update(<<5>>, <<3>>)>>, version |-> <<5>>, size |-> <<3>>],
                 <<Tree!Element("conflicts", <<Dep(<<3>>, NoDep)>>)>>, "none", TRUE)

SomeDocuments ==
  { <<Tree!Element("channel", <<p>>)>> : p \in PackageElements }
  \cup { <<Tree!Element("channel", <<Tree!Element("subchannel", <<FirstElement, p>>)>>)>> :
           p \in PackageElements }

Names == {"package", "history", "update", "requires", "or", "dep", "version"}

Leaves == {Tree!Element(n, <<>>) : n \in Names}

\* Any element in any other.
AnyNesting ==
  { <<Tree!Element("package",
        <<Tree!Element(n[1], <<Tree!Element(n[2], <<Tree!Element(n[3], n[4])>>)>>)>>)>> :
      n \in Names \X Names \X Names \X ({<<l>> : l \in Leaves} \cup (Leaves \X Leaves)) }

Channel == INSTANCE XmlSax WITH Documents <- SomeDocuments
Nesting == INSTANCE XmlSax WITH Documents <- AnyNesting
NoXml   == INSTANCE XmlSax WITH Documents <- {<<>>}

-----------------------------------------------------------------------------
\* A Packages file of some lines, an apt list of headers of several lengths, some of which
\* have a byte of the magic, and a directory with files and directories.
Line(kind, key, value, ended) == [kind |-> kind, key |-> key, value |-> value, ended |-> ended]

Field(key, value) == Line("field", key, value, TRUE)

\* Lines of a file that ends there: within a field that is looked at, or one that is not,
\* before the colon, or within a line that continues another.
CutLines ==
  { Line("field", "Package", <<1>>, FALSE), Line("field", "Depends", <<4>>, FALSE),
    Line("field", "Maintainer", <<4>>, FALSE), Line("stub", "", <<>>, FALSE),
    Line("more", "", <<8>>, FALSE) }

ProperLines ==
  { Field("Package", <<1>>), Field("Package", <<2>>), Field("Version", <<3>>),
    Field("Depends", <<4>>), Field("Pre-Depends", <<5>>), Field("Provides", <<6, 7>>),
    Line("more", "", <<8>>, TRUE), Line("empty", "", <<>>, TRUE) }

SomePieces == {<<9, n>> \o rest : n \in {1, 2}, rest \in {<<>>, <<5>>, <<7>>, <<5, 6, 5>>}}

File(name, version) == [name |-> name, version |-> version]

Dir(marks, index, entries) == [marks |-> marks, index |-> index, entries |-> entries]

SomeEntries ==
  { File(1, 1), File(1, 2), File(2, 1), File(2, 3),
    Dir({}, <<>>, {File(1, 3), File(2, 2)}),
    Dir({"RC_SKIP"}, <<>>, {File(1, 9)}),
    Dir({}, <<File(2, 2), File(3, 1)>>, {File(1, 9)}),
    Dir({"RC_IGNORE_PKGINFO"}, <<File(2, 9)>>, {File(3, 2), Dir({}, <<>>, {File(3, 3)})}) }

DebianFile == INSTANCE PackageFiles WITH
  Lines <- ProperLines \cup CutLines, Pieces <- {}, HeaderMagic <- <<7, 6>>, Entries <- {}, MaxLength <- 6
AptList == INSTANCE PackageFiles WITH
  Lines <- {}, Pieces <- SomePieces, HeaderMagic <- <<7, 6>>, Entries <- {}, MaxLength <- 14
Directory == INSTANCE PackageFiles WITH
  Lines <- {}, Pieces <- {}, HeaderMagic <- <<7, 6>>, Entries <- SomeEntries, MaxLength <- 8

-----------------------------------------------------------------------------
\* Queries over an installed package, the same version of it and a later one in a channel,
\* and another one without a summary.
AllPackages == {"i1", "c1", "c2", "d1"}

TextsOfPackages ==
  [p \in AllPackages |->
     [k \in {"name", "summary", "description", "channel"} |->
        CASE k = "name" -> IF p = "d1" THEN <<98>> ELSE <<65, 97>>
          [] k = "summary" -> IF p = "d1" THEN null ELSE <<97, 32, 98>>
          [] k = "description" -> null
          [] k = "channel" -> IF p = "i1" THEN <<>> ELSE <<97>>]]

SpecsOfPackages ==
  [p \in AllPackages |-> [name |-> IF p = "d1" THEN "b" ELSE "a",
                          version |-> IF p = "c2" THEN 2 ELSE 1]]

Importances ==
  [p \in AllPackages |-> CASE p = "c2" -> 1 [] p = "d1" -> 2 [] OTHER -> 0]

Part(k, t, q) == [key |-> k, type |-> t, query |-> q]

\* The parts that begin or end a group have no key, or one.
OrParts(key) == {Part(key, "begin-or", null), Part(key, "end-or", null)}

SomeParts ==
  {Part("name", "eq", <<97, 42>>), Part("text", "contains_word", <<66>>),
   Part("channel", "ne", <<97>>), Part("installed", "ne", "true"),
   Part("package-installed", "eq", "true"), Part("importance", "gteq", 1)}

WrongParts ==
  {Part("size", "eq", <<>>), Part("name-installed", "gt", "true"), Part("importance", "eq", null)}

ListsOf(some, n) == UNION {[1..m -> some] : m \in 0..n}

\* All short queries, and some with two groups.
TwoGroups ==
  {<<Part("or", "begin-or", null), p[1], Part("or", "end-or", null),
     Part("or", "begin-or", null), p[2], p[3], Part("or", "end-or", null)>> :
     p \in [1..3 -> SomeParts]}

SomeQueries ==
  ListsOf(SomeParts \cup OrParts("or"), 4) \cup TwoGroups
    \cup [1..1 -> {Part("importance", "gteq", n) : n \in 0..4}]

WrongQueries ==
  ListsOf({Part("name", "eq", <<97>>), Part("needs_upgrade", "eq", "false"),
           Part("name-installed", "eq", "true")} \cup WrongParts \cup OrParts(null), 5)

Asking == INSTANCE Queries WITH
  Alnum <- {97, 98, 65}, Lower <- {<<65, 97>>}, Package <- AllPackages,
  Texts <- TextsOfPackages, Installed <- {"i1"}, SpecOf <- SpecsOfPackages,
  Importance <- Importances, Upgradable <- {"i1"},
  Worlds <- {<<"i1", "c1", "c2", "d1">>, <<"d1", "c1">>}, Queries <- SomeQueries, NULL <- null
AskingWrong == INSTANCE Queries WITH
  Alnum <- {97, 98, 65}, Lower <- {<<65, 97>>}, Package <- AllPackages,
  Texts <- TextsOfPackages, Installed <- {"i1"}, SpecOf <- SpecsOfPackages,
  Importance <- Importances, Upgradable <- {"i1"}, Worlds <- {<<>>}, Queries <- WrongQueries,
  NULL <- null
NotAsking == INSTANCE Queries WITH
  Alnum <- {}, Lower <- {}, Package <- {}, Texts <- <<>>, Installed <- {}, SpecOf <- <<>>,
  Importance <- <<>>, Upgradable <- {}, Worlds <- {<<>>}, Queries <- {<<>>}, NULL <- null

\* A question and a text grow: 'a', 'A', a space and '*'.
Grow ==
  \E c \in {97, 65, 32, 42} :
    \/ Len(asked) < 3 /\ asked' = Append(asked, c) /\ UNCHANGED text
    \/ Len(text) < 4 /\ text' = Append(text, c) /\ UNCHANGED asked

-----------------------------------------------------------------------------
\* Two versions of one package and three others, with an info of most kinds; and infos that
\* merge: of one text, as an error and not, with packages and without, and of what a package
\* misses.  The items of a queue log no text both ways, and for one package no second
\* requirement; the library's clients may (rc_resolver_context_add_info).
I(type, package, others, msg, error, priority) ==
  [type |-> type, package |-> package, list |-> others, req |-> null, msg |-> msg,
   error |-> error, priority |-> priority]

SomeInfos ==
  {I("misc", "a1", {}, "conflict", TRUE, 1), I("misc", null, {"a2", "c"}, "locked", FALSE, 1),
   I("needed_by", "b", {"a2"}, null, FALSE, 5), I("needed_by", "b", {"c"}, null, FALSE, 5),
   I("depends_on", "c", {"d"}, null, FALSE, 5), I("conflicts_with", "d", {"b"}, null, FALSE, 5),
   I("child_of", "b", {"d"}, null, FALSE, 5)}

Missing(p, req) == [I("missing_req", p, {}, null, FALSE, 5) EXCEPT !.req = req]

MergingInfos ==
  {I("misc", "a1", {}, "conflict", TRUE, 1), I("misc", "a1", {}, "conflict", FALSE, 1),
   I("misc", "a1", {"b"}, "conflict", TRUE, 1), I("misc", "b", {}, "conflict", TRUE, 1),
   I("needed_by", "b", {"c"}, null, FALSE, 5), Missing("b", "x"), Missing("b", "y"),
   Missing("c", "x")}

InfoNames == [p \in {"a1", "a2", "b", "c", "d"} |-> IF p \in {"a1", "a2"} THEN "a" ELSE p]

Infos == INSTANCE ResolverInfo WITH
  Package <- DOMAIN InfoNames, NameOf <- InfoNames,
  Info <- SomeInfos, Marking <- I("misc", null, {}, "marking", TRUE, 1), NULL <- null,
  MaxInfos <- 5, MaxLevels <- 2
Mergers == INSTANCE ResolverInfo WITH
  Package <- DOMAIN InfoNames, NameOf <- InfoNames,
  Info <- MergingInfos, Marking <- I("misc", null, {}, "marking", TRUE, 1), NULL <- null,
  MaxInfos <- 4, MaxLevels <- 2

ASSUME /\ RpmStrings!VersionsAssumption /\ DebStrings!VersionsAssumption
       /\ Asking!QueriesAssumption /\ AskingWrong!QueriesAssumption
       /\ Infos!InfoAssumption /\ Mergers!InfoAssumption

-----------------------------------------------------------------------------
versionVars == <<a, b, x, y, z>>
xmlVars     == <<document, todo, ctx, done>>
fileVars    == <<packages, list, directory>>
queryVars   == <<parts, order, next, result, folded, phase>>
textVars    == <<asked, text>>
infoVars    == <<chain, invalid>>

Init ==
  /\ part \in Parts
  /\ CASE part = "specs" -> RpmSpecs!Init
       [] part = "alternatives" -> DebSpecs!Init /\ z = x
       [] OTHER -> RpmStrings!Init
  /\ CASE part = "channel" -> Channel!Init
       [] part = "nesting" -> Nesting!Init
       [] OTHER -> NoXml!Init
  /\ CASE part = "questions" -> Asking!Init
       [] part = "refused" -> AskingWrong!Init
       [] OTHER -> NotAsking!Init
  /\ DebianFile!Init /\ Infos!Init
  /\ asked = <<>> /\ text = <<>>

Next ==
  \/ /\ \/ part = "rpm versions" /\ RpmStrings!Next
        \/ part = "deb versions" /\ DebStrings!Next
        \/ part = "specs" /\ RpmSpecs!Next
        \/ part = "alternatives" /\ DebSpecs!Next
     /\ UNCHANGED <<part, xmlVars, fileVars, queryVars, textVars, infoVars>>
  \/ /\ \/ part = "channel" /\ Channel!Next
        \/ part = "nesting" /\ Nesting!Next
     /\ UNCHANGED <<part, versionVars, fileVars, queryVars, textVars, infoVars>>
  \/ /\ \/ part = "debian file" /\ DebianFile!Next
        \/ part = "apt list" /\ AptList!Next
        \/ part = "directory" /\ Directory!Next
     /\ UNCHANGED <<part, versionVars, xmlVars, queryVars, textVars, infoVars>>
  \/ /\ \/ part = "questions" /\ Asking!Next
        \/ part = "refused" /\ AskingWrong!Next
     /\ UNCHANGED <<part, versionVars, xmlVars, fileVars, textVars, infoVars>>
  \/ /\ part = "strings" /\ Grow
     /\ UNCHANGED <<part, versionVars, xmlVars, fileVars, queryVars, infoVars>>
  \/ /\ \/ part = "infos" /\ Infos!Next
        \/ part = "merging infos" /\ Mergers!Next
     /\ UNCHANGED <<part, versionVars, xmlVars, fileVars, queryVars, textVars>>

Spec ==
  Init /\ [][Next]_<<part, versionVars, xmlVars, fileVars, queryVars, textVars, infoVars>>

-----------------------------------------------------------------------------
\* Comparing versions is what it should be: vercmp compares segment by segment and verrevcmp
\* text and number in turn; what is newer than something newer is newer (the best upgrade
\* is found by comparing one by one); a version that is written and parsed is the same; and
\* a dependency is met exactly if some version is admitted by it and by the provision
\* (rc_package_dep_verify_relation), with dpkg's capabilities also if it is one of the
\* alternatives that have been written into a name.
VersionsAreOrdered ==
  CASE part = "rpm versions" -> RpmStrings!RpmAgrees
    [] part = "deb versions" -> DebStrings!DebAgrees
    [] part = "specs" -> /\ RpmSpecs!NewerIsTransitive /\ RpmSpecs!ReadsBack
                         /\ z = x => RpmSpecs!MetByOverlap
    [] part = "alternatives" -> DebSpecs!AlternativesKeepTheirMeaning
    [] OTHER -> TRUE

\* A file of packages is read as what it says.  The two readers of XML agree however the text
\* is cut, but for a version and a size that an element has of its own; no assertion of the
\* reader fails whatever is nested in what, and it frees nothing it must not, unless
\* alternatives are within alternatives; what is dumped is read back, with the newest update
\* first.  Each block of a Packages file gives one package, unless the file ends within the
\* value of a field, where the program dies; each header of an apt list gives one, and a
\* directory the newest of each name.
FilesReadBack ==
  CASE part = "channel" -> /\ Channel!AssertsHold /\ Channel!ReadersAgree
                           /\ Channel!DumpsReadBack /\ Channel!NewestFirst
    [] part = "nesting" -> Nesting!AssertsHold /\ Nesting!FreesWhatIsItsOwn
    [] part = "debian file" -> DebianFile!BlocksArePackages
    [] part = "apt list" -> AptList!EveryHeaderIsRead
    [] part = "directory" -> Directory!NewestOfEachName
    [] OTHER -> TRUE

\* The search for a word (strstr_word), which goes on after an occurrence within a longer
\* word, finds one exactly when there is one anywhere in the text, with no letter or
\* digit next to it.
WordsAreFound ==
  Asking!MatchString("contains_word", asked, text) =
    \E i \in 1..Len(text) :
      /\ Asking!OccursAt(text, asked, i)
      /\ \A k \in {i - 1, i + Len(asked)} \cap DOMAIN text : text[k] \notin {97, 65}

\* A query returns the packages for which every part holds and one part of every group; it
\* is refused exactly when it is ill-formed; updates of an importance are found without
\* what is installed; words are found wherever they are; and no part keeps a folded string
\* (rc_query_packages, rc_query_begin, rc_query_match, rc_query_end).
QueriesMatch ==
  CASE part = "questions" -> /\ Asking!TypeOK /\ Asking!SelectsWhatMatches
                             /\ Asking!ImportantOnesAreFound /\ Asking!FoldedAreFreed
    [] part = "refused" -> AskingWrong!RefusesIllFormed
    [] part = "strings" -> WordsAreFound
    [] OTHER -> TRUE

\* What the user is told explains what happened: a context is invalid exactly if an error is
\* logged for it, and then an error is reported as important; what was logged about a package
\* is reported in one info of its kind, with the packages it names - but a text and a
\* requirement as they were logged first, also if that was no error; and what is important
\* is the smallest set that mark_important_info's loop can stop at, without what is about
\* the own package of something important (rc_resolver_context_foreach_info).
InfosExplain ==
  CASE part = "infos" -> /\ Infos!TypeOK /\ Infos!InvalidIsExplained /\ Infos!NamesAreReported
                         /\ Infos!MarksTheSmallestSet
    [] part = "merging infos" -> /\ Mergers!TypeOK /\ Mergers!InvalidIsExplained
                                 /\ Mergers!NamesAreReported /\ Mergers!MarksTheSmallestSet
    [] OTHER -> TRUE
=============================================================================
