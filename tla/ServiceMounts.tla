------------------------------ MODULE ServiceMounts ------------------------------
(***************************************************************************)
(* Services and the multi world they are mounted in: the handlers of URI   *)
(* schemes (rc-world-service.c), and mounting, naming and looking up       *)
(* services (rc-world-multi.c).                                            *)
(***************************************************************************)
EXTENDS Naturals, Sequences, FiniteSets, SequencesExt, FiniteSetsExt

CONSTANTS
  Urls,        \* records [scheme, path, name]; scheme "" is a URL without a colon
  Types,       \* types of services; SERVICE is RC_TYPE_WORLD_SERVICE itself
  SERVICE,
  Lower,       \* a function on schemes, paths and names: the letters in lower case
  MaxMounted   \* bound: how many services are mounted at a time

VARIABLES
  handlers,    \* scheme_handlers: a function from the schemes that have one
  subworlds,   \* the list of the multi world: services [type, url, id, name]
  said         \* what the last call returned: "mounted", "error", or "" of another call

vars == <<handlers, subworlds, said>>

Schemes == {url.scheme : url \in Urls} \ {""}

TypeOK ==
  /\ DOMAIN handlers \subseteq Schemes /\ Range(handlers) \subseteq Types
  /\ \A i \in DOMAIN subworlds : subworlds[i].url \in Urls /\ subworlds[i].type \in Types
  /\ said \in {"mounted", "error", ""}

Init ==
  /\ handlers = [s \in {} |-> SERVICE]
  /\ subworlds = <<>>
  /\ said = ""

\* rc_world_service_register; a second registration replaces the first.
Register ==
  \E s \in Schemes, t \in Types :
    /\ handlers' = [u \in DOMAIN handlers \cup {s} |-> IF u = s THEN t ELSE handlers[u]]
    /\ said' = ""
    /\ UNCHANGED subworlds

\* rc_world_service_unregister
Unregister ==
  \E s \in DOMAIN handlers :
    /\ handlers' = [u \in DOMAIN handlers \ {s} |-> handlers[u]]
    /\ said' = ""
    /\ UNCHANGED subworlds

\* The services that rc_world_multi_foreach_subworld_by_type walks over: those of that very
\* type, and not of types derived from it.
ByType(type) == {w \in Range(subworlds) : w.type = type}

LowerUrl(url) == [k \in DOMAIN url |-> Lower[url[k]]]

\* Faulty: case matters.
LookupExactly(url) == {w \in ByType(SERVICE) : w.url = url}

\* rc_world_multi_lookup_service: without regard to case.
LookupService(url) == {w \in ByType(SERVICE) : LowerUrl(w.url) = LowerUrl(url)}

\* rc_world_multi_lookup_service_by_id
LookupById(id) == {w \in ByType(SERVICE) : w.id = id}

\* A name is a text and the numbers that were added to it.
LowerName(name) == [name EXCEPT ![1] = Lower[@]]

\* service_name_conflict_cb: "name", "name (1)", "name (2)", ... until none has it; each
\* conflict starts the walk over the services again.
NameWithout(name) ==
  LET Numbered(k) == IF k = 0 THEN name ELSE Append(name, k)
      Conflicts(k) == \E w \in ByType(SERVICE) : LowerName(w.name) = LowerName(Numbered(k))
  IN  Numbered(Min({k \in 0..Len(subworlds) : ~Conflicts(k)}))

\* rc_world_service_mount, of a url whose handler assembles a service: the id is the path, and
\* so is the name unless the url has one.
Assembled(url) ==
  [type |-> handlers[url.scheme], url |-> url, id |-> url.path, name |-> <<url.name>>]

\* rc_world_multi_add_subworld
WithSubworld(w) == Append(subworlds, [w EXCEPT !.name = NameWithout(@)])

Refused(url) == LookupService(url) # {} \/ url.scheme \notin DOMAIN handlers

\* rc_world_multi_mount_service
Mount ==
  \E url \in Urls :
    /\ ~Refused(url) /\ LookupById(Assembled(url).id) = {}
    /\ Len(subworlds) < MaxMounted
    /\ subworlds' = WithSubworld(Assembled(url))
    /\ said' = "mounted"
    /\ UNCHANGED handlers

\* The URL is mounted, has no handler, cannot be assembled, or has the id of another.
MountFails ==
  /\ said' = "error"
  /\ UNCHANGED <<handlers, subworlds>>

\* rc_world_multi_remove_subworld
Unmount ==
  \E i \in DOMAIN subworlds :
    /\ subworlds' = RemoveAt(subworlds, i)
    /\ said' = ""
    /\ UNCHANGED handlers

Next == Register \/ Unregister \/ Mount \/ MountFails \/ Unmount

Spec == Init /\ [][Next]_vars

-----------------------------------------------------------------------------
SameService(v, w) == LowerUrl(v.url) = LowerUrl(w.url) \/ v.id = w.id
SameName(v, w)    == LowerName(v.name) = LowerName(w.name)

\* Of two services in the list that share the URL, the id, or the name but for case, the
\* one mounted first is of a type derived from SERVICE: of that very type, the later one
\* would have been refused (rc_world_multi_mount_service) or given a number
\* (rc_world_multi_add_subworld), whatever came and went in between.
OnlyDerivedShare ==
  \A i, j \in DOMAIN subworlds :
    /\ i < j
    /\ SameService(subworlds[i], subworlds[j]) \/ SameName(subworlds[i], subworlds[j])
    => subworlds[i].type # SERVICE

\* What the comments at rc-world-multi.c:1146 and :907 want.  Neither is so: all services of
\* the library are of derived types, which no look-up by the type SERVICE finds (:1029).
MountedOnce ==
  \A i, j \in DOMAIN subworlds : i # j => ~SameService(subworlds[i], subworlds[j])
NamesDiffer ==
  \A i, j \in DOMAIN subworlds : i # j => ~SameName(subworlds[i], subworlds[j])
=============================================================================
