--------------------------------- MODULE XmlTree ---------------------------------
(***************************************************************************)
(* Packages as XML elements (rc-xml.c): what rc_package_to_xml_node writes *)
(* and what rc_xml_node_to_package reads from a tree.  An element is       *)
(* [name, attrs, text, kids]: attrs a function on the attributes that are  *)
(* there, text a sequence of characters.  The epoch, the version and the   *)
(* release of something stand for one value, a sequence of digits that is  *)
(* compared as a number; "op" and the version of a dependency for another, *)
(* its "rel".  A dependency is [name, rel, or], or being the alternatives. *)
(***************************************************************************)
EXTENDS Integers, Sequences, SequencesExt

Sections == {"requires", "provides", "conflicts", "obsoletes", "children", "suggests",
             "recommends"}

ANY == <<>>         \* no "op": the relation RC_RELATION_ANY
NoVersion == <<>>
UNKNOWN == <<>>     \* RC_ARCH_UNKNOWN
SystemArch == <<9>>
BLANK == 0          \* white space

NoAttrs == [a \in {} |-> ANY]

Element(name, kids) == [name |-> name, attrs |-> NoAttrs, text |-> <<>>, kids |-> kids]

TextElement(name, text) == [name |-> name, attrs |-> NoAttrs, text |-> text, kids |-> <<>>]

Concat(seqs) == FoldLeft(LAMBDA all, s : all \o s, <<>>, seqs)

\* Those parts of an element that are written.
Given(written, element) == IF written THEN <<element>> ELSE <<>>

Digits(v) == SelectSeq(v, LAMBDA c : c # BLANK)

\* rc_packman_version_compare
Compare(v, w) ==
  LET Number(s) == FoldLeft(LAMBDA n, c : 10 * n + c, 0, Digits(s))
  IN  Number(v) - Number(w)

NewPackage ==
  [name |-> <<>>, version |-> NoVersion, arch |-> UNKNOWN, size |-> <<>>, once |-> FALSE,
   history |-> <<>>, deps |-> [s \in Sections |-> <<>>]]

NewUpdate == [version |-> NoVersion, size |-> <<>>]

-----------------------------------------------------------------------------
\* What a package keeps of its updates: the newest first.

\* rc_package_add_update, for updates that are not patches.
AddUpdate(h, u) ==
  LET stops == {i \in 1..Len(h) : Compare(u.version, h[i].version) >= 0 \/ i = Len(h)}
      i == CHOOSE j \in stops : \A k \in stops : j <= k
  IN  IF h = <<>> THEN <<u>>
      ELSE InsertAt(h, IF Compare(u.version, h[i].version) > 0 THEN i ELSE i + 1, u)

\* Where a package provides itself, the versions it has there.
OwnVersions(p) ==
  LET own == SelectSeq(p.deps["provides"],
               LAMBDA d : d.name = p.name /\ d.rel # ANY /\ d.rel[1] = "=")
  IN  [i \in DOMAIN own |-> own[i].rel[2]]

\* The version of a package whose XML has none of its own.
DerivedVersion(p) ==
  IF p.history # <<>> THEN p.history[1].version
  ELSE IF OwnVersions(p) # <<>> THEN OwnVersions(p)[1]
  ELSE NoVersion

-----------------------------------------------------------------------------
\* Writing.

UpdateToNode(u) ==
  Element("update", <<TextElement("version", u.version), TextElement("filesize", u.size)>>)

RECURSIVE DepToNode(_)

\* rc_package_dep_to_xml_node and rc_package_dep_or_slist_to_xml_node
DepToNode(d) ==
  IF d.or # <<>>
  THEN Element("or", [i \in DOMAIN d.or |-> DepToNode(d.or[i])])
  ELSE [Element("dep", <<>>) EXCEPT
          !.attrs = [a \in IF d.rel = ANY THEN {"name"} ELSE {"name", "rel"} |->
                      IF a = "name" THEN d.name ELSE d.rel]]

SectionsInOrder ==
  <<"requires", "recommends", "suggests", "conflicts", "obsoletes", "children", "provides">>

\* rc_package_to_xml_node
PackageToNode(p) ==
  Element("package",
    <<TextElement("name", p.name), TextElement("version", p.version),
      TextElement("arch", p.arch), TextElement("filesize", p.size)>>
    \o Given(p.once, TextElement("install_only", <<1>>))
    \o Given(p.history # <<>>,
             Element("history", [i \in DOMAIN p.history |-> UpdateToNode(p.history[i])]))
    \o <<Element("deps", Concat([i \in DOMAIN SectionsInOrder |->
           LET s == SectionsInOrder[i]
           IN  Given(p.deps[s] # <<>>,
                     Element(s, [j \in DOMAIN p.deps[s] |-> DepToNode(p.deps[s][j])]))]))>>)

-----------------------------------------------------------------------------
\* Reading a tree.

\* rc_xml_node_to_package_dep_internal
SimpleDep(e) ==
  [name |-> e.attrs["name"],
   rel  |-> IF "rel" \in DOMAIN e.attrs THEN e.attrs["rel"] ELSE ANY,
   or   |-> <<>>]

\* rc_xml_node_to_package_dep
NodeToDep(e) ==
  IF e.name = "dep" THEN SimpleDep(e)
  ELSE [name |-> <<>>, rel |-> ANY, or |-> [i \in DOMAIN e.kids |-> SimpleDep(e.kids[i])]]

\* extract_dep_info: what is read is put before what there is, and the whole reversed; what
\* a conflict obsoletes is not reversed.
ExtractDepInfo(deps, e) ==
  LET Obsoletes(k) == "obsoletes" \in DOMAIN e.attrs \/ "obsoletes" \in DOMAIN k.attrs
      moved == IF e.name = "conflicts" THEN SelectSeq(e.kids, Obsoletes) ELSE <<>>
      kept == IF e.name = "conflicts" THEN SelectSeq(e.kids, LAMBDA k : ~Obsoletes(k))
              ELSE e.kids
      Read(kids) == [i \in DOMAIN kids |-> NodeToDep(kids[i])]
  IN  IF e.name \notin Sections THEN deps
      ELSE [s \in Sections |->
              CASE s = e.name -> Reverse(deps[s]) \o Read(kept)
                [] s = "obsoletes" /\ s # e.name -> Reverse(Read(moved)) \o deps[s]
                [] OTHER -> deps[s]]

\* rc_xml_node_to_package_update
NodeToUpdate(e) ==
  FoldLeft(LAMBDA u, k : CASE k.name = "version" -> [u EXCEPT !.version = k.text]
                           [] k.name = "filesize" -> [u EXCEPT !.size = k.text]
                           [] OTHER -> u,
           NewUpdate, e.kids)

\* One element below "package".
ReadChild(p, e) ==
  CASE e.name = "name" -> [p EXCEPT !.name = e.text]
    [] e.name = "version" -> [p EXCEPT !.version = e.text]
    [] e.name = "arch" -> [p EXCEPT !.arch = e.text]
    [] e.name = "filesize" -> [p EXCEPT !.size = e.text]
    [] e.name = "install_only" -> [p EXCEPT !.once = TRUE]
    [] e.name = "history" ->
         [p EXCEPT !.history = FoldLeft(AddUpdate, @,
                                 [i \in DOMAIN e.kids |-> NodeToUpdate(e.kids[i])])]
    [] e.name = "deps" -> [p EXCEPT !.deps = FoldLeft(ExtractDepInfo, @, e.kids)]
    [] OTHER -> [p EXCEPT !.deps = ExtractDepInfo(@, e)]

\* The version and the architecture, once all is read.
Settle(p) ==
  [p EXCEPT !.version = IF @ # NoVersion THEN @ ELSE DerivedVersion(p),
            !.arch = IF @ = UNKNOWN THEN SystemArch ELSE @]

\* rc_xml_node_to_package
NodeToPackage(e) == Settle(FoldLeft(ReadChild, NewPackage, e.kids))

\* rc_extract_packages_from_xml_node: down the first elements to the first package, then
\* the packages beside it.
RECURSIVE ExtractPackages(_)
ExtractPackages(nodes) ==
  IF nodes = <<>> THEN <<>>
  ELSE IF nodes[1].name # "package" THEN ExtractPackages(nodes[1].kids)
  ELSE LET packages == SelectSeq(nodes, LAMBDA e : e.name = "package")
       IN  [i \in DOMAIN packages |-> NodeToPackage(packages[i])]
=============================================================================
