-------------------------------- MODULE Pending ---------------------------------
(***************************************************************************)
(* Pending operations (rc-pending.c): their status, what they say of their *)
(* progress, and the table in which clients look them up by id, from which *)
(* old ones are removed whenever it is used, but not too often.  Clients   *)
(* that look one up get no reference.                                      *)
(***************************************************************************)
EXTENDS Integers, FiniteSets

CONSTANTS
  MaxId,         \* the pendings that are ever made
  MaxTime,
  CleanupTime,   \* CLEANUP_TIME
  CleanupDelay,  \* CLEANUP_DELAY
  Percents,      \* what is reported
  Sizes          \* what is reported by size: pairs of completed and total

\* What the constants are, assumed wherever they are given values.
PendingAssumption ==
  /\ {MaxId, CleanupTime, CleanupDelay} \subseteq Nat /\ MaxTime \in Nat \ {0}
  /\ Percents \subseteq 0..100
  /\ \A s \in Sizes : s[2] \in Nat /\ s[1] \in 0..s[2]

VARIABLES
  pendings,     \* the pendings by id: see New
  table,        \* id_hash: the ids
  nextId,
  lastCleanup,
  now

vars == <<pendings, table, nextId, lastCleanup, now>>

Ids == 1..MaxId

Fresh == [status |-> "PRE_BEGIN", start |-> 0, last |-> 0, poll |-> 0, percent |-> 0]

\* Times begin with 1: 0 is never.
Init ==
  /\ pendings = [i \in Ids |-> Fresh]
  /\ table = {} /\ nextId = 1 /\ lastCleanup = 0 /\ now = 1

IsActive(p) == p.status \notin {"FINISHED", "ABORTED", "FAILED"}

\* Faulty: when it became inactive does not matter.
IsOldUnlessPolled(p, t) ==
  /\ ~IsActive(p)
  /\ p.poll = 0 \/ t - p.poll > CleanupTime

\* pending_cleanup_cb
IsOld(p, t) ==
  /\ ~IsActive(p)
  /\ t - p.last > CleanupTime
  /\ p.poll = 0 \/ t - p.poll > CleanupTime

Due == lastCleanup = 0 \/ now - lastCleanup > CleanupDelay

\* rc_pending_cleanup, of a table that has been made already.
Cleanup(ps, ids) ==
  IF nextId > 1 /\ Due
  THEN /\ table' = {i \in ids : ~IsOld(ps[i], now)}
       /\ lastCleanup' = now
  ELSE table' = ids /\ UNCHANGED lastCleanup

-----------------------------------------------------------------------------
\* rc_pending_new: clean-up first.
New ==
  /\ nextId <= MaxId
  /\ IF nextId > 1 /\ Due
     THEN /\ table' = {i \in table : ~IsOld(pendings[i], now)} \cup {nextId}
          /\ lastCleanup' = now
     ELSE table' = table \cup {nextId} /\ UNCHANGED lastCleanup
  /\ nextId' = nextId + 1
  /\ UNCHANGED <<pendings, now>>

\* rc_pending_lookup_by_id
Lookup(i) ==
  LET found == IF i \in table THEN [pendings EXCEPT ![i].poll = now] ELSE pendings
  IN  /\ pendings' = found
      /\ Cleanup(found, table)
      /\ UNCHANGED <<nextId, now>>

\* rc_pending_get_all_active_ids: clean-up first.
GetAllActiveIds ==
  /\ nextId > 1
  /\ Cleanup(pendings, table)
  /\ pendings' = [i \in Ids |-> IF i \in table' /\ IsActive(pendings[i])
                                THEN [pendings[i] EXCEPT !.poll = now] ELSE pendings[i]]
  /\ UNCHANGED <<nextId, now>>

\* What the owner of a pending does to it.
Own(i, status, p) ==
  /\ i < nextId /\ pendings[i].status = status
  /\ pendings' = [pendings EXCEPT ![i] = p]
  /\ UNCHANGED <<table, nextId, lastCleanup, now>>

\* rc_pending_begin
Begin(i) ==
  Own(i, "PRE_BEGIN",
      [pendings[i] EXCEPT !.status = "RUNNING", !.start = now, !.last = now, !.percent = 0])

\* rc_pending_update
Update(i) ==
  \E percent \in Percents :
    Own(i, "RUNNING", [pendings[i] EXCEPT !.last = now, !.percent = percent])

PercentOf(size) == IF size[2] > 0 THEN (100 * size[1]) \div size[2] ELSE 100

\* rc_pending_update_by_size
UpdateBySize(i) ==
  \E size \in Sizes :
    Own(i, "RUNNING", [pendings[i] EXCEPT !.last = now, !.percent = PercentOf(size)])

\* rc_pending_finished, rc_pending_abort, rc_pending_fail
Complete(i, status) ==
  Own(i, "RUNNING", [pendings[i] EXCEPT !.last = now, !.status = status])

Tick == now < MaxTime /\ now' = now + 1 /\ UNCHANGED <<pendings, table, nextId, lastCleanup>>

Next ==
  \/ New \/ GetAllActiveIds \/ Tick
  \/ \E i \in Ids : \/ Lookup(i) \/ Begin(i) \/ Update(i) \/ UpdateBySize(i)
                    \/ \E status \in {"FINISHED", "ABORTED", "FAILED"} : Complete(i, status)

Spec == Init /\ [][Next]_vars

-----------------------------------------------------------------------------
\* rc_pending_get_expected_secs
ExpectedSecs(p) ==
  IF p.start = 0 \/ p.last = 0 \/ p.start = p.last \/ p.percent = 0 THEN -1
  ELSE (100 * (p.last - p.start)) \div p.percent

\* rc_pending_get_elapsed_secs
ElapsedSecs(p) ==
  IF p.start = 0 THEN -1
  ELSE (IF p.status = "RUNNING" THEN now ELSE p.last) - p.start

\* rc_pending_get_remaining_secs
RemainingSecs(p) ==
  IF ElapsedSecs(p) < 0 \/ ExpectedSecs(p) < 0 THEN -1
  ELSE IF ElapsedSecs(p) <= ExpectedSecs(p) THEN ExpectedSecs(p) - ElapsedSecs(p) ELSE 0

-----------------------------------------------------------------------------
\* Everything of its type.
TypeOK ==
  /\ pendings \in [Ids -> [status : {"PRE_BEGIN", "RUNNING", "FINISHED", "ABORTED", "FAILED"},
                           start : 0..MaxTime, last : 0..MaxTime, poll : 0..MaxTime,
                           percent : 0..100]]
  /\ nextId \in 1..(MaxId + 1) /\ table \subseteq 1..(nextId - 1)
  /\ lastCleanup \in 0..now /\ now \in 1..MaxTime

\* "We will only clean up an RCPending if: It is no longer active.  It became inactive
\* more than CLEANUP_TIME seconds ago.  It hasn't been polled in the last CLEANUP_TIME
\* seconds."  So whoever looked one up may use it for that long.
CleanedWhenForgotten ==
  [][\A i \in table \ table' :
       /\ ~IsActive(pendings[i])
       /\ now - pendings[i].last > CleanupTime
       /\ pendings'[i].poll = 0 \/ now - pendings'[i].poll > CleanupTime]_vars

\* Whoever uses the table cleans it of all that was old then, if the last time is longer
\* ago than CLEANUP_DELAY: it does not grow with every pending there ever was.
NothingOldIsLeft ==
  \A i \in table :
    lastCleanup # 0 /\ ~IsActive(pendings[i]) =>
      \/ lastCleanup - pendings[i].last <= CleanupTime
      \/ pendings[i].poll # 0 /\ lastCleanup - pendings[i].poll <= CleanupTime

\* What remains is estimated from what was done when it was last reported: between two
\* reports it only becomes less (rc_pending_get_remaining_secs).
EstimateFalls ==
  [][pendings' = pendings =>
       \A i \in Ids : RemainingSecs(pendings[i])' <= RemainingSecs(pendings[i])]_vars

=============================================================================
