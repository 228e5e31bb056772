----------------------------- MODULE AtomicRefresh ----------------------------
(***************************************************************************)
(* What the refresh of a multi world promises.  A refresh goes on for a    *)
(* while; until it ends the multi world shows what it showed before, and   *)
(* in one step it then shows, for every world it can refresh, the copy     *)
(* made by this refresh, never a mixture of the two.                       *)
(***************************************************************************)
EXTENDS Naturals

CONSTANTS Service, Refreshable

VARIABLES
  shown,       \* the worlds that answer queries, pairs of a service and a generation
  generation,  \* the number of refreshes begun
  refreshing   \* whether a refresh is going on

vars == <<shown, generation, refreshing>>

Init ==
  /\ shown \subseteq Service \X {0}
  /\ generation = 0
  /\ refreshing = FALSE

Begin ==
  /\ ~refreshing
  /\ refreshing' = TRUE
  /\ generation' = generation + 1
  /\ UNCHANGED shown

Renewed(w) == IF w[1] \in Refreshable THEN <<w[1], generation>> ELSE w

Finish ==
  /\ refreshing
  /\ refreshing' = FALSE
  /\ shown' = {Renewed(w) : w \in shown}
  /\ UNCHANGED generation

Mount ==
  /\ \E s \in Service : shown' = shown \cup {<<s, 0>>}
  /\ UNCHANGED <<generation, refreshing>>

Unmount ==
  /\ \E w \in shown : shown' = shown \ {w}
  /\ UNCHANGED <<generation, refreshing>>

Next == Begin \/ Finish \/ Mount \/ Unmount

Spec == Init /\ [][Next]_vars
=============================================================================
