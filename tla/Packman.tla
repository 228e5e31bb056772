-------------------------------- MODULE Packman --------------------------------
(***************************************************************************)
(* The front end of the package managers, rc-packman.c: the count of locks *)
(* and the error of the last call.  The signals database_locked and        *)
(* database_unlocked are emitted between the call of the back end and the  *)
(* change of the count, and a transaction emits signals and runs main      *)
(* loops, so that handlers may call the front end again before a call has  *)
(* returned.                                                               *)
(***************************************************************************)
EXTENDS Integers, FiniteSets, Sequences, SequencesExt

CONSTANTS
  Handlers,   \* what handlers call: "lock", "unlock", "query"
  MaxCount,   \* a bound on locks that are held
  MaxDepth    \* a bound on calls within calls

\* What the constants are, assumed wherever they are given values.
PackmanAssumption ==
  /\ Handlers \subseteq {"lock", "unlock", "query"}
  /\ MaxCount \in Nat \ {0} /\ MaxDepth \in Nat \ {0}

NONE  == 0
ABORT == 1
FATAL == 2

VARIABLES
  count,     \* lock_count
  real,      \* whether the back end has the lock
  error,     \* the RCPackmanError of the packman
  stack,     \* the calls that have not returned, the innermost last
  reports    \* of the last transaction: what went wrong at worst, and what was said

vars == <<count, real, error, stack, reports>>

Frame == [op : {"lock", "unlock", "transact"}, worst : {NONE, ABORT, FATAL}]

TypeOK ==
  /\ count \in -MaxDepth..(MaxCount + MaxDepth) /\ real \in BOOLEAN
  /\ error \in {NONE, ABORT, FATAL}
  /\ stack \in Seq(Frame) /\ Len(stack) <= MaxDepth
  /\ reports \in {NONE, ABORT, FATAL} \X {NONE, ABORT, FATAL}

Init == /\ count = 0 /\ real = FALSE /\ error = NONE /\ stack = <<>>
        /\ reports = <<NONE, NONE>>

-----------------------------------------------------------------------------
Worse(a, b) == IF a > b THEN a ELSE b

\* The program calls, or a handler does.
MayCall(op) == stack = <<>> \/ (op \in Handlers /\ Len(stack) < MaxDepth)

Push(op) == stack' = Append(stack, [op |-> op, worst |-> NONE])
Pop      == stack' = Front(stack)
Top(op)  == stack # <<>> /\ Last(stack).op = op

\* rc_packman_lock, up to the signal.
Lock ==
  /\ MayCall("lock") /\ count < MaxCount
  /\ \/ /\ count > 0
        /\ count' = count + 1 /\ error' = NONE /\ UNCHANGED <<real, stack>>
     \/ /\ count = 0 /\ ~real
        /\ real' = TRUE /\ error' = NONE /\ Push("lock") /\ UNCHANGED count
     \/ /\ count = 0
        /\ error' = ABORT /\ UNCHANGED <<count, real, stack>>
  /\ UNCHANGED reports

LockReturns ==
  /\ Top("lock")
  /\ count' = count + 1
  /\ Pop /\ UNCHANGED <<real, error, reports>>

\* Faulty: the last lock is given back one call too early.
UnlockEarly ==
  /\ MayCall("unlock") /\ count >= 0
  /\ error' = NONE
  /\ \/ count = 0 /\ UNCHANGED <<count, real, stack>>
     \/ count \in {1, 2} /\ real' = FALSE /\ Push("unlock") /\ UNCHANGED count
     \/ count > 2 /\ count' = count - 1 /\ UNCHANGED <<real, stack>>
  /\ UNCHANGED reports

\* rc_packman_unlock, up to the signal.
Unlock ==
  /\ MayCall("unlock") /\ count >= 0
  /\ error' = NONE
  /\ \/ count = 0 /\ UNCHANGED <<count, real, stack>>
     \/ count = 1 /\ real' = FALSE /\ Push("unlock") /\ UNCHANGED count
     \/ count > 1 /\ count' = count - 1 /\ UNCHANGED <<real, stack>>
  /\ UNCHANGED reports

UnlockReturns ==
  /\ Top("unlock")
  /\ count' = count - 1
  /\ Pop /\ UNCHANGED <<real, error, reports>>

\* rc_packman_query and the like: the error is cleared, and may be set again.
Query ==
  /\ MayCall("query")
  /\ error' \in {NONE, ABORT}
  /\ UNCHANGED <<count, real, stack, reports>>

\* rc_packman_transact: requests that name a package twice are refused.
Transact ==
  /\ stack = <<>>
  /\ \/ error' = NONE /\ Push("transact") /\ UNCHANGED reports
     \/ error' = ABORT /\ reports' = <<ABORT, ABORT>> /\ UNCHANGED stack
  /\ UNCHANGED <<count, real>>

\* rc_packman_set_error.
SetError(e, kind) == Worse(e, kind)

\* The back end reports an error.
TransactFails ==
  /\ Top("transact")
  /\ \E kind \in {ABORT, FATAL} :
       /\ error' = SetError(error, kind)
       /\ stack' = [stack EXCEPT ![Len(stack)].worst = Worse(@, kind)]
  /\ UNCHANGED <<count, real, reports>>

\* The caller looks at rc_packman_get_error.
TransactReturns ==
  /\ Top("transact")
  /\ reports' = <<Last(stack).worst, error>>
  /\ Pop /\ UNCHANGED <<count, real, error>>

Next == \/ Lock \/ LockReturns \/ Unlock \/ UnlockReturns
        \/ Query \/ Transact \/ TransactFails \/ TransactReturns

Spec == Init /\ [][Next]_vars

-----------------------------------------------------------------------------
\* A transaction's worst error is what the caller sees (rc_packman_set_error).
FailuresAreReported == reports[1] = reports[2]

\* The count is never negative (the assertions in rc_packman_lock and
\* rc_packman_unlock).
CountIsNotNegative == count >= 0

\* The front end implements a counting lock.  A lock counts from when the back end
\* has it, and no longer from when it has given it back.
Pending(op) == Cardinality({i \in DOMAIN stack : stack[i].op = op})

Abstract == INSTANCE CountingLock WITH
  held   <- count + Pending("lock") - Pending("unlock"),
  locked <- real

IsCountingLock == Abstract!Spec

=============================================================================
