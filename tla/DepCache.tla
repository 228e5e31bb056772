-------------------------------- MODULE DepCache --------------------------------
(***************************************************************************)
(* The dependencies of all packages are shared: rc_package_dep_new returns *)
(* the one there is, with a reference more (rc-package-dep.c).             *)
(* Alternatives are kept in a storage of their own (rc-dep-or.c).          *)
(* Dependencies come from the fields of a Debian status file               *)
(* (rc_debman_fill_depends), from XML, and from clients.  A dependency is  *)
(* [name, what, pre, or], "what" being its relation and version, or NONE.  *)
(***************************************************************************)
EXTENDS Integers, Sequences, FiniteSets, SequencesExt, FiniteSetsExt

CONSTANTS
  Names,     \* the names of dependencies
  Whats,     \* relations with versions
  NONE,      \* RC_RELATION_ANY
  Clients,   \* packages and worlds that hold lists of dependencies
  Cells,     \* the places of the memory chunk
  RefBits,   \* the width of refs, a signed bit field
  Fields     \* what is read: sequences of alternatives, sequences of [name, what]

\* What the constants are, assumed wherever they are given values.
DepCacheAssumption ==
  /\ NONE \notin Whats
  /\ Cells \subseteq Nat /\ IsFiniteSet(Cells)
  /\ RefBits \in Nat \ {0}

VARIABLES
  store,  \* [cells, deps, ors, leaked, aborted]: see Init
  lists,  \* what the clients hold: sequences of cells
  read    \* the field a client has read last, whether it was a Pre-Depends, its cells

vars == <<store, lists, read>>

FREE == <<>>

NoFunction == [n \in {} |-> <<>>]

-----------------------------------------------------------------------------
Init ==
  /\ store = [cells   |-> [c \in Cells |-> FREE],  \* [dep, refs], or FREE
              deps    |-> NoFunction,              \* the lists of the hash table, by name
              ors     |-> NoFunction,              \* the alternatives: [ref, split]
              leaked  |-> <<>>,                    \* cells that nobody will release
              aborted |-> FALSE]                   \* an assertion has failed
  /\ lists = [k \in Clients |-> <<>>]
  /\ read = [field |-> <<>>, pre |-> FALSE, cells |-> <<>>]

\* refs is a signed bit field.
Wrapped(n) ==
  IF n >= 2 ^ (RefBits - 1) THEN n - 2 ^ RefBits ELSE n

Live(s) == {c \in Cells : s.cells[c] # FREE}

\* rc_package_dep_ref
Ref(s, c) ==
  IF s.cells[c].refs <= 0 THEN [s EXCEPT !.aborted = TRUE]
  ELSE [s EXCEPT !.cells[c].refs = Wrapped(@ + 1)]

\* rc_package_dep_unref, global_info_free: the last reference takes it off the list of
\* its name, and an empty list out of the table.
Unref(s, c) ==
  IF s.cells[c] = FREE \/ s.cells[c].refs <= 0 THEN [s EXCEPT !.aborted = TRUE]
  ELSE IF s.cells[c].refs > 1 THEN [s EXCEPT !.cells[c].refs = @ - 1]
  ELSE LET name == s.cells[c].dep.name
           left == Remove(s.deps[name], c)
       IN  [s EXCEPT !.cells[c] = FREE,
                     !.deps = IF left # <<>> THEN [@ EXCEPT ![name] = left]
                              ELSE [n \in DOMAIN @ \ {name} |-> @[n]]]

UnrefAll(s, cs) == FoldLeft(Unref, s, cs)

RefAll(s, cs) == FoldLeft(Ref, s, cs)

\* Those of one name that dep_equal finds.
Equals(s, d) ==
  IF d.name \notin DOMAIN s.deps THEN <<>>
  ELSE SelectSeq(s.deps[d.name], LAMBDA c : s.cells[c].dep = d)

HasRoom(s) == \E c \in Cells : s.cells[c] = FREE

Room(s) == Min({c \in Cells : s.cells[c] = FREE})

\* Faulty: a reference is not counted when there is one already.
DepNewUncounted(s, d) ==
  IF Equals(s, d) # <<>> THEN s
  ELSE [s EXCEPT !.cells[Room(s)] = [dep |-> d, refs |-> 1],
                 !.deps = [n \in DOMAIN @ \cup {d.name} |->
                             IF n # d.name THEN @[n]
                             ELSE <<Room(s)>> \o (IF n \in DOMAIN @ THEN @[n] ELSE <<>>)]]

\* rc_package_dep_new, dep_new
DepNew(s, d) ==
  IF Equals(s, d) # <<>> THEN Ref(s, Equals(s, d)[1])
  ELSE [s EXCEPT !.cells[Room(s)] = [dep |-> d, refs |-> 1],
                 !.deps = [n \in DOMAIN @ \cup {d.name} |->
                             IF n # d.name THEN @[n]
                             ELSE <<Room(s)>> \o (IF n \in DOMAIN @ THEN @[n] ELSE <<>>)]]

\* The cell that it returns.
Found(s, d) == IF Equals(s, d) # <<>> THEN Equals(s, d)[1] ELSE Room(s)

\* Dependencies that are made one after another: [store, cells].
DepsNew(s, ds) ==
  FoldLeft(LAMBDA sc, d : [store |-> DepNew(sc.store, d),
                           cells |-> Append(sc.cells, Found(sc.store, d))],
           [store |-> s, cells |-> <<>>], ds)

\* rc_dep_or_dep_slist_to_string
OrName(s, cs) == [i \in DOMAIN cs |-> <<s.cells[cs[i]].dep.name, s.cells[cs[i]].dep.what>>]

\* rc_dep_or_new: it is never taken out again.
OrNew(s, cs) ==
  LET n == OrName(s, cs)
      t == RefAll(s, cs)
  IN  IF n \in DOMAIN s.ors THEN [s EXCEPT !.ors[n].ref = @ + 1]
      ELSE [t EXCEPT !.ors = [m \in DOMAIN @ \cup {n} |->
                                IF m = n THEN [ref |-> 1, split |-> cs] ELSE @[m]]]

\* rc_dep_or_new_provide
OrProvide(name) == [name |-> name, what |-> NONE, pre |-> FALSE, or |-> TRUE]

\* rc_debman_fill_depends: what one alternative becomes.
FilledDep(e, pre) ==
  [name |-> e.name, what |-> e.what, or |-> FALSE,
   pre |-> IF e.what = NONE THEN pre ELSE FALSE]

\* Several alternatives become one dependency.  Whoever reads Debian fields or a
\* document forgets them, the SAX parser releases them.
Alternatives(sc, es, pre, forgets) ==
  LET made == DepsNew(sc.store, [i \in DOMAIN es |-> FilledDep(es[i], pre)])
      d    == OrProvide(OrName(made.store, made.cells))
      ors  == OrNew(made.store, made.cells)
      t    == DepNew(ors, d)
  IN  IF Len(es) = 1 THEN [store |-> made.store, cells |-> sc.cells \o made.cells]
      ELSE [store |-> IF forgets THEN [t EXCEPT !.leaked = @ \o made.cells]
                      ELSE UnrefAll(t, made.cells),
            cells |-> Append(sc.cells, Found(ors, d))]

Filled(s, field, pre, forgets) ==
  FoldLeft(LAMBDA sc, es : Alternatives(sc, es, pre, forgets), [store |-> s, cells |-> <<>>],
           field)

\* The most a field can need.
Room4(s, field) ==
  Cardinality(Cells \ Live(s)) >= FoldLeft(LAMBDA n, es : n + Len(es) + 1, 0, field)

-----------------------------------------------------------------------------
\* rc_package_dep_new, rc_package_dep_new_from_spec
New(k) ==
  \E name \in Names, what \in Whats \cup {NONE}, pre \in BOOLEAN :
    LET d == [name |-> name, what |-> what, pre |-> pre, or |-> FALSE]
    IN  /\ HasRoom(store)
        /\ store' = DepNew(store, d)
        /\ lists' = [lists EXCEPT ![k] = Append(@, Found(store, d))]
        /\ UNCHANGED read

\* rc_debman_fill_depends, parser_dep_end, rc_xml_node_to_package_dep
Fill(k) ==
  \E field \in Fields, pre, forgets \in BOOLEAN :
    LET filled == Filled(store, field, pre, forgets)
    IN  /\ lists[k] = <<>> /\ Room4(store, field)
        /\ store' = filled.store
        /\ lists' = [lists EXCEPT ![k] = filled.cells]
        /\ read' = [field |-> field, pre |-> pre,
                    cells |-> [i \in DOMAIN filled.cells |->
                                 filled.store.cells[filled.cells[i]]]]

\* rc_package_dep_slist_copy, rc_package_dep_array_copy
Copy(k, l) ==
  /\ lists[k] # <<>> /\ lists[l] = <<>>
  /\ store' = RefAll(store, lists[k])
  /\ lists' = [lists EXCEPT ![l] = lists[k]]
  /\ UNCHANGED read

\* rc_package_dep_slist_free, rc_package_dep_array_free
Free(k) ==
  /\ lists[k] # <<>>
  /\ store' = UnrefAll(store, lists[k])
  /\ lists' = [lists EXCEPT ![k] = <<>>]
  /\ UNCHANGED read

Next ==
  /\ ~store.aborted
  /\ \/ \E k \in Clients : New(k) \/ Fill(k) \/ Free(k)
     \/ \E k, l \in Clients : Copy(k, l)

Spec == Init /\ [][Next]_vars

-----------------------------------------------------------------------------
\* Everything of its type.
TypeOK ==
  /\ \A c \in Cells : store.cells[c] # FREE =>
       store.cells[c].refs \in -(2 ^ (RefBits - 1))..(2 ^ (RefBits - 1) - 1)
  /\ \A n \in DOMAIN store.deps : store.deps[n] \in Seq(Cells) /\ store.deps[n] # <<>>
  /\ \A n \in DOMAIN store.ors : store.ors[n].ref >= 1
  /\ store.leaked \in Seq(Cells) /\ store.aborted \in BOOLEAN
  /\ lists \in [Clients -> Seq(Cells)]

\* Dependencies that are the same are one ("This is used to decide if we need to
\* actually allocate a new one or not"), so pointers can be compared instead.
SameIsShared ==
  \A c, d \in Live(store) : store.cells[c].dep = store.cells[d].dep => c = d

\* What the table lists under a name are the live dependencies of that name, once each:
\* a freed one is found by nobody, a live one is found again.
ListedByName ==
  /\ \A n \in DOMAIN store.deps :
       /\ IsInjective(store.deps[n])
       /\ \A c \in ToSet(store.deps[n]) : c \in Live(store) /\ store.cells[c].dep.name = n
  /\ \A c \in Live(store) : /\ store.cells[c].dep.name \in DOMAIN store.deps
                            /\ c \in ToSet(store.deps[store.cells[c].dep.name])

Times(s, c) == Cardinality({i \in DOMAIN s : s[i] = c})

\* The references that somebody has: clients, the storage of alternatives, and those
\* that are forgotten.
Holders(c) ==
  MapThenSumSet(LAMBDA k : Times(lists[k], c), Clients)
    + MapThenSumSet(LAMBDA n : Times(store.ors[n].split, c), DOMAIN store.ors)
    + Times(store.leaked, c)

\* A dependency has as many references as there are holders, so that it lives as long
\* as somebody has it and no longer (rc_package_dep_ref, rc_package_dep_unref).
RefsAreHolders ==
  \A c \in Cells : Holders(c) = IF store.cells[c] = FREE THEN 0 ELSE store.cells[c].refs

\* "g_assert (dep->refs > 0)": what is held can always be released.
NeverAborts == ~store.aborted

\* What is read from a field of Pre-Depends is a pre-dependency ("take a pre parameter,
\* pass it along to rc_package_dep_new").
PreIsKept ==
  \A i \in DOMAIN read.cells :
    read.pre /\ Len(read.field[i]) = 1 => read.cells[i].dep.pre

=============================================================================
