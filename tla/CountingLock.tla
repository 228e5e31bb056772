------------------------------ MODULE CountingLock ------------------------------
(***************************************************************************)
(* What rc_packman_lock and rc_packman_unlock promise their callers: the   *)
(* database is locked exactly while somebody wants it to be.               *)
(***************************************************************************)
EXTENDS Naturals

VARIABLES held, locked

Init == held = 0 /\ locked = FALSE

Acquire == held' = held + 1 /\ locked' = TRUE
Release == held > 0 /\ held' = held - 1 /\ locked' = (held > 1)

Next == Acquire \/ Release
Spec == Init /\ [][Next]_<<held, locked>>
=============================================================================
