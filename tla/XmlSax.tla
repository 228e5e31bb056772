---------------------------------- MODULE XmlSax ----------------------------------
(***************************************************************************)
(* rc_xml_parse reads the packages of a channel while its XML is parsed: a *)
(* handler for each start of an element, end of an element and piece of    *)
(* text, over one context (rc-xml.c).  The text of an element may arrive   *)
(* in pieces, and the file may end, or cease to be XML, anywhere.          *)
(***************************************************************************)
EXTENDS XmlTree

CONSTANT Documents  \* sequences of elements

VARIABLES
  document,  \* what the file holds
  todo,      \* the events that the parser has yet to report
  ctx,       \* RCPackageSAXContext; "out" are the packages given to the callback
  done       \* rc_xml_parse has returned

vars == <<document, todo, ctx, done>>

\* The last is none of the program's: the reader has freed what is not its own, and the
\* allocator stops the process, or what it does then is undefined.
States == {"TOPLEVEL", "PACKAGE", "HISTORY", "UPDATE", "DEP", "FREED"}

NONE == <<>>

RECURSIVE Events(_)

\* The events of some elements in a row, in document order.
Events(nodes) ==
  IF nodes = <<>> THEN <<>>
  ELSE LET e == Head(nodes)
       IN  <<[tag |-> "start", name |-> e.name, attrs |-> e.attrs]>>
           \o (IF e.text = <<>> THEN <<>> ELSE <<[tag |-> "text", text |-> e.text]>>)
           \o Events(e.kids)
           \o <<[tag |-> "end", name |-> e.name]>>
           \o Events(Tail(nodes))

Init ==
  /\ document \in Documents
  /\ todo = Events(document)
  /\ ctx = [state |-> "TOPLEVEL", package |-> NONE, deps |-> [s \in Sections |-> <<>>],
            update |-> NONE,
            list |-> "",     \* toplevel_dep_list: a section, or none
            or |-> NONE,     \* current_dep_list, where that is another list
            text |-> <<>>, out |-> <<>>]
  /\ done = FALSE

-----------------------------------------------------------------------------
\* The start of an element.

\* parser_toplevel_start
ToplevelStart(c, name) ==
  IF name # "package" THEN c
  ELSE [c EXCEPT !.state = "PACKAGE", !.package = <<NewPackage>>,
                 !.deps = [s \in Sections |-> <<>>]]

\* Faulty: an attribute of the section is not looked at.
PackageStartPlain(c, name, attrs) ==
  CASE name = "history" -> [c EXCEPT !.state = "HISTORY"]
    [] name \in Sections -> [c EXCEPT !.state = "DEP", !.or = NONE, !.list = name]
    [] OTHER -> c

\* parser_package_start
PackageStart(c, name, attrs) ==
  CASE name = "history" -> [c EXCEPT !.state = "HISTORY"]
    [] name \in Sections ->
         [c EXCEPT !.state = "DEP", !.or = NONE,
                   !.list = IF name = "conflicts" /\ "obsoletes" \in DOMAIN attrs
                            THEN "obsoletes" ELSE name]
    [] OTHER -> c

\* parser_history_start
HistoryStart(c, name) ==
  IF name = "update" THEN [c EXCEPT !.update = <<NewUpdate>>, !.state = "UPDATE"] ELSE c

\* parser_dep_start and parse_dep_attrs
DepStart(c, name, attrs) ==
  LET dep == [name |-> IF "name" \in DOMAIN attrs THEN attrs["name"] ELSE <<>>,
              rel |-> IF "rel" \in DOMAIN attrs THEN attrs["rel"] ELSE ANY, or |-> <<>>]
  IN  CASE name = "or" -> [c EXCEPT !.or = << <<>> >>]
        [] name = "dep" /\ "obsoletes" \in DOMAIN attrs ->
             [c EXCEPT !.deps["obsoletes"] = Append(@, dep)]
        [] name = "dep" /\ "obsoletes" \notin DOMAIN attrs /\ c.or = NONE ->
             [c EXCEPT !.deps[c.list] = Append(@, dep)]
        [] name = "dep" /\ "obsoletes" \notin DOMAIN attrs /\ c.or # NONE ->
             [c EXCEPT !.or = <<Append(@[1], dep)>>]
        [] OTHER -> c

Containers == {"channel", "subchannel"}

\* Nothing is said of what a reader does that has freed a section's own list.
Goes == ~done /\ ctx.state # "FREED"

\* sax_start_element
StartElement ==
  /\ todo # <<>> /\ Goes /\ Head(todo).tag = "start"
  /\ LET e == Head(todo)
         c == [ctx EXCEPT !.text = <<>>]
     IN  ctx' = CASE e.name \in Containers -> c
                  [] c.state = "TOPLEVEL" /\ e.name \notin Containers ->
                       ToplevelStart(c, e.name)
                  [] c.state = "PACKAGE" /\ e.name \notin Containers ->
                       PackageStart(c, e.name, e.attrs)
                  [] c.state = "HISTORY" /\ e.name \notin Containers ->
                       HistoryStart(c, e.name)
                  [] c.state = "DEP" /\ e.name \notin Containers ->
                       DepStart(c, e.name, e.attrs)
                  [] OTHER -> c
  /\ todo' = Tail(todo)
  /\ UNCHANGED <<document, done>>

-----------------------------------------------------------------------------
\* The end of an element.

\* The package is complete: its version and sizes are those of its latest update, and its
\* version otherwise the one it provides itself in.
Complete(c) ==
  LET p == [c.package[1] EXCEPT !.deps = c.deps]
  IN  [p EXCEPT !.version = DerivedVersion(p),
                !.size = IF p.history = <<>> THEN @ ELSE p.history[1].size,
                !.arch = IF @ = UNKNOWN THEN SystemArch ELSE @]

\* parser_package_end
PackageEnd(c, name) ==
  CASE name = "package" ->
         [c EXCEPT !.out = Append(@, Complete(c)), !.package = NONE, !.state = "TOPLEVEL"]
    [] name = "name" -> [c EXCEPT !.package[1].name = Digits(c.text)]
    [] name = "arch" -> [c EXCEPT !.package[1].arch = Digits(c.text)]
    [] name = "filesize" -> [c EXCEPT !.package[1].size = Digits(c.text)]
    [] name = "install_only" -> [c EXCEPT !.package[1].once = TRUE]
    [] OTHER -> c

\* parser_history_end
HistoryEnd(c, name) == IF name = "history" THEN [c EXCEPT !.state = "PACKAGE"] ELSE c

\* parser_update_end
UpdateEnd(c, name) ==
  CASE name = "update" ->
         [c EXCEPT !.package[1].history = AddUpdate(@, c.update[1]), !.update = NONE,
                   !.state = "HISTORY"]
    [] name = "version" -> [c EXCEPT !.update[1].version = Digits(c.text)]
    [] name = "filesize" -> [c EXCEPT !.update[1].size = Digits(c.text)]
    [] OTHER -> c

\* parser_dep_end: the list of the alternatives is freed; where those within them have ended
\* first, that is the section's own list, which is part of the context.  Any other element
\* that ends is taken for the section.
DepEnd(c, name) ==
  CASE name = "or" /\ c.or # NONE ->
         [c EXCEPT !.deps[c.list] = Append(@, [name |-> <<>>, rel |-> ANY, or |-> c.or[1]]),
                   !.or = NONE]
    [] name = "or" /\ c.or = NONE -> [c EXCEPT !.state = "FREED", !.list = ""]
    [] name = "dep" -> c
    [] OTHER -> [c EXCEPT !.list = "", !.or = NONE, !.state = "PACKAGE"]

\* sax_end_element
EndElement ==
  /\ todo # <<>> /\ Goes /\ Head(todo).tag = "end"
  /\ LET name == Head(todo).name
         after == CASE name \in Containers \/ ctx.state = "TOPLEVEL" -> ctx
                    [] ctx.state = "PACKAGE" /\ name \notin Containers -> PackageEnd(ctx, name)
                    [] ctx.state = "HISTORY" /\ name \notin Containers -> HistoryEnd(ctx, name)
                    [] ctx.state = "UPDATE" /\ name \notin Containers -> UpdateEnd(ctx, name)
                    [] ctx.state = "DEP" /\ name \notin Containers -> DepEnd(ctx, name)
     IN  ctx' = [after EXCEPT !.text = <<>>]
  /\ todo' = Tail(todo)
  /\ UNCHANGED <<document, done>>

\* sax_characters adds to text_buffer.
Collect(text, piece) == text \o piece

Characters ==
  /\ todo # <<>> /\ Goes /\ Head(todo).tag = "text"
  /\ \E n \in 1..Len(Head(todo).text) :
       LET text == Head(todo).text
           rest == SubSeq(text, n + 1, Len(text))
       IN  /\ ctx' = [ctx EXCEPT !.text = Collect(@, SubSeq(text, 1, n))]
           /\ todo' = IF rest = <<>> THEN Tail(todo)
                      ELSE <<[tag |-> "text", text |-> rest]>> \o Tail(todo)
  /\ UNCHANGED <<document, done>>

\* The end of the file, or the first error in it: what is incomplete is lost.
Return ==
  /\ Goes
  /\ done' = TRUE
  /\ UNCHANGED <<document, todo, ctx>>

Next == StartElement \/ EndElement \/ Characters \/ Return

Spec == Init /\ [][Next]_vars

-----------------------------------------------------------------------------
\* Properties.

\* The assertions of rc-xml.c: there is a package exactly within one, an update exactly
\* within one, and a list for every dependency (rc-xml.c:96, 120, 192, 308, 433, 446).
AssertsHold ==
  /\ ctx.state \in States
  /\ (ctx.package = NONE) <=> (ctx.state = "TOPLEVEL")
  /\ (ctx.update # NONE) <=> (ctx.state = "UPDATE")
  /\ (ctx.list # "") <=> (ctx.state = "DEP")

\* The order of the dependencies of a section is of no account, nor is white space.
Unordered(p) ==
  [p EXCEPT !.deps = [s \in Sections |-> <<Len(p.deps[s]), ToSet(p.deps[s])>>],
            !.version = Digits(@),
            !.history = [i \in DOMAIN @ |-> [@[i] EXCEPT !.version = Digits(@)]]]

UnorderedAll(ps) == [i \in DOMAIN ps |-> Unordered(ps[i])]

\* A section's own list is only freed for alternatives within alternatives: two of them have
\* begun with none ended between (rc-xml.c:527).
FreesWhatIsItsOwn ==
  ctx.state = "FREED" =>
    LET events == Events(document)
        read == 1..(Len(events) - Len(todo))
        Ors(tag) == {k \in read : events[k].tag = tag /\ events[k].name = "or"}
    IN  \E i, j \in Ors("start") : i < j /\ \A k \in Ors("end") : k < i \/ j < k

\* "The current_dep_list was allocated with g_new0" (rc-xml.c:534): nothing else is freed.  It
\* does not hold of alternatives within alternatives.
NothingElseIsFreed == ctx.state # "FREED"

\* The first package element on the way down the first elements, and those beside it.
RECURSIVE PackageElementsOf(_)
PackageElementsOf(nodes) ==
  IF nodes = <<>> THEN <<>>
  ELSE IF nodes[1].name # "package" THEN PackageElementsOf(nodes[1].kids)
  ELSE SelectSeq(nodes, LAMBDA e : e.name = "package")

Gives(e, name) == \E i \in DOMAIN e.kids : e.kids[i].name = name

\* One package as the two readers have it: the tree's has the version and the size that the
\* element has of its own, the other those of the latest update, if there is one
\* (rc-xml.c:314, 988).
SamePackage(e, sax, tree) ==
  /\ [sax EXCEPT !.version = NoVersion, !.size = <<>>]
       = [tree EXCEPT !.version = NoVersion, !.size = <<>>]
  /\ ~Gives(e, "version") => sax.version = tree.version
  /\ sax.history = <<>> => sax.size = tree.size
  /\ sax.history # <<>> =>
       /\ sax.version = sax.history[1].version /\ sax.size = sax.history[1].size

\* What has been given to the callback are packages that the reader of trees finds in the
\* document, in their order, however the text was cut, and all of them, once the end is
\* reached; they are the same but for a version and a size of the element's own.
ReadersAgree ==
  LET elements == PackageElementsOf(document)
      tree == UnorderedAll(ExtractPackages(document))
      sax == UnorderedAll(ctx.out)
  IN  /\ Len(sax) <= Len(tree)
      /\ \A i \in DOMAIN sax : SamePackage(elements[i], sax[i], tree[i])
      /\ todo = <<>> => Len(sax) = Len(tree)

\* ReadersAgree with versions and sizes.  It does not hold (rc-xml.c:314, 988).
ReadersAgreeInAll ==
  LET tree == UnorderedAll(ExtractPackages(document))
  IN  /\ IsPrefix(UnorderedAll(ctx.out), tree)
      /\ todo = <<>> => UnorderedAll(ctx.out) = tree

\* What is read from a channel and dumped (rc_world_dump) is read back as it was.
DumpsReadBack ==
  \A i \in DOMAIN ctx.out : NodeToPackage(PackageToNode(ctx.out[i])) = ctx.out[i]

\* The updates of a package are kept newest first, in whatever order they are read.
NewestFirst ==
  \A i \in DOMAIN ctx.out :
    LET h == ctx.out[i].history
    IN  \A j \in 1..(Len(h) - 1) : Compare(h[j].version, h[j + 1].version) >= 0
=============================================================================
