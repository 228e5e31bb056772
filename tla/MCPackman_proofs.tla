---------------------------- MODULE MCPackman_proofs ----------------------------
(***************************************************************************)
(* What holds of the package managers and of the system world, for all     *)
(* packages, worlds and bounds.                                            *)
(***************************************************************************)
EXTENDS MCPackman, FiniteSetTheorems, TLAPS

-----------------------------------------------------------------------------
(* The front end *)

\* What the front end counts is what its callers hold, but for a call within which a
\* signal is emitted: there is at most one call that has not returned, for handlers
\* only query.
FrontInv ==
  /\ calls \in 0..MaxCalls /\ real \in BOOLEAN
  /\ failure \in {Front!NONE, Front!ABORT, Front!FATAL}
  /\ stack \in Seq(Front!Frame)
  /\ reports \in {Front!NONE, Front!ABORT, Front!FATAL} \X {Front!NONE, Front!ABORT, Front!FATAL}
  /\ \/ stack = <<>> /\ (real <=> calls > 0)
     \/ /\ Len(stack) = 1
        /\ \/ stack[1].op = "lock" /\ calls = 0 /\ real
           \/ stack[1].op = "unlock" /\ calls = 1 /\ ~real
           \/ stack[1].op = "transact" /\ (real <=> calls > 0)

\* The error that is kept is the worst of the transaction, if no handler calls the front
\* end.
WorstInv ==
  part = "front unhandled" =>
    /\ reports[1] = reports[2]
    /\ stack # <<>> /\ stack[1].op = "transact" => stack[1].worst = failure

LEMMA FrontParts ==
  [Next]_vars =>
    /\ part' = part
    /\ \/ part = "front" /\ Front!Next
       \/ part = "front unhandled" /\ Unhandled!Next
       \/ UNCHANGED frontVars
BY DEF Next, vars, frontVars

LEMMA UnhandledStep == Unhandled!Next => Front!Next
BY DEF Unhandled!Next, Unhandled!Lock, Unhandled!LockReturns, Unhandled!Unlock,
       Unhandled!UnlockReturns, Unhandled!Query, Unhandled!Transact, Unhandled!TransactFails,
       Unhandled!TransactReturns, Unhandled!MayCall, Unhandled!Push, Unhandled!Pop, Unhandled!Top,
       Unhandled!Worse, Unhandled!SetError, Unhandled!NONE, Unhandled!ABORT, Unhandled!FATAL,
       Unhandled!Front, Unhandled!Last,
       Front!Next, Front!Lock, Front!LockReturns, Front!Unlock,
       Front!UnlockReturns, Front!Query, Front!Transact, Front!TransactFails,
       Front!TransactReturns, Front!MayCall, Front!Push, Front!Pop, Front!Top,
       Front!Worse, Front!SetError, Front!NONE, Front!ABORT, Front!FATAL,
       Front!Front, Front!Last

\* Of a stack of at most one call.
LEMMA StackOf ==
  ASSUME stack \in Seq(Front!Frame), stack = <<>> \/ Len(stack) = 1
  PROVE  /\ stack # <<>> => /\ stack[1] \in Front!Frame /\ DOMAIN stack = {1}
                            /\ Front!Last(stack) = stack[1] /\ Front!Front(stack) = <<>>
                            /\ Len(stack) = 1
         /\ stack = <<>> => DOMAIN stack = {} /\ Len(stack) = 0
         /\ \A f : f \in Front!Frame <=>
              /\ f = [op |-> f.op, worst |-> f.worst]
              /\ f.op \in {"lock", "unlock", "transact"}
              /\ f.worst \in {Front!NONE, Front!ABORT, Front!FATAL}
<1>1. stack # <<>> => /\ stack[1] \in Front!Frame /\ DOMAIN stack = {1}
                      /\ Front!Last(stack) = stack[1] /\ Front!Front(stack) = <<>>
  BY DEF Front!Last, Front!Front
<1>2. stack = <<>> => DOMAIN stack = {} /\ Len(stack) = 0
  OBVIOUS
<1>3. \A f : f \in Front!Frame <=>
              /\ f = [op |-> f.op, worst |-> f.worst]
              /\ f.op \in {"lock", "unlock", "transact"}
              /\ f.worst \in {Front!NONE, Front!ABORT, Front!FATAL}
  BY DEF Front!Frame
<1> QED
  BY <1>1, <1>2, <1>3

LEMMA FirstCall ==
  ASSUME NEW op, NEW s, stack = <<>>, s = Append(stack, [op |-> op, worst |-> 0])
  PROVE  s[1].op = op /\ s[1].worst = 0
<1>1. s[1] = [op |-> op, worst |-> 0]
  <2> DEFINE x == [op |-> op, worst |-> 0]
  <2>1. s = Append(<<>>, x)
    OBVIOUS
  <2> HIDE DEF x
  <2> QED
    BY <2>1
<1> QED
  BY <1>1

LEMMA Replaced ==
  ASSUME NEW S, NEW s \in Seq(S), NEW i \in 1..Len(s), NEW x \in S
  PROVE  /\ [s EXCEPT ![i] = x] \in Seq(S) /\ Len([s EXCEPT ![i] = x]) = Len(s)
         /\ \A j \in 1..Len(s) : [s EXCEPT ![i] = x][j] = IF j = i THEN x ELSE s[j]
OBVIOUS

\* The innermost call fails.
LEMMA WorstOf ==
  ASSUME stack \in Seq(Front!Frame), Len(stack) = 1, NEW kind \in {Front!ABORT, Front!FATAL},
         NEW f, f = [stack[1] EXCEPT !.worst = Front!Worse(@, kind)],
         stack' = [stack EXCEPT ![1] = f]
  PROVE  /\ stack' \in Seq(Front!Frame) /\ Len(stack') = 1
         /\ stack'[1].op = stack[1].op
         /\ stack'[1].worst = Front!Worse(stack[1].worst, kind)
<1>1. stack[1] \in Front!Frame /\ 1 \in 1..Len(stack)
  OBVIOUS
<1>2. /\ f \in Front!Frame /\ f.op = stack[1].op
      /\ f.worst = Front!Worse(stack[1].worst, kind)
  BY <1>1 DEF Front!Frame, Front!Worse
<1>3. stack' \in Seq(Front!Frame) /\ Len(stack') = 1 /\ stack'[1] = f
  BY <1>1, <1>2, Replaced
<1> QED
  BY <1>2, <1>3

LEMMA FrontBegins == Init => FrontInv /\ WorstInv
<1> SUFFICES ASSUME Init PROVE FrontInv /\ WorstInv
  OBVIOUS
<1>1. Front!Init
  BY DEF Init
<1>2. MaxCalls \in Nat
  BY PartsAssumption DEF Front!PackmanAssumption
<1>3. reports = <<0, 0>> /\ calls = 0 /\ real = FALSE /\ failure = 0 /\ stack = <<>>
  BY <1>1 DEF Front!Init, Front!NONE
<1>4. reports \in {0, 1, 2} \X {0, 1, 2} /\ reports[1] = reports[2]
  BY <1>3
<1>5. stack \in Seq(Front!Frame)
  BY <1>3
<1>6. FrontInv
  <2>1. calls \in 0..MaxCalls /\ failure \in {0, 1, 2}
    BY <1>2, <1>3
  <2>3. real \in BOOLEAN
    BY <1>3, Zenon
  <2>2. real <=> calls > 0
    BY <1>3
  <2> QED
    BY <1>3, <1>4, <1>5, <2>1, <2>2, <2>3 DEF FrontInv, Front!NONE, Front!ABORT, Front!FATAL
<1>7. WorstInv
  BY <1>3, <1>4 DEF WorstInv
<1> QED
  BY <1>6, <1>7

LEMMA FrontKeeps == ASSUME FrontInv, Front!Next PROVE FrontInv'
<1> USE DEF Front!NONE, Front!ABORT, Front!FATAL
<1>1. MaxCalls \in Nat \ {0} /\ calls \in Nat
  BY PartsAssumption DEF Front!PackmanAssumption, FrontInv
<1>2. stack = <<>> \/ Len(stack) = 1
  BY DEF FrontInv
<1>3. CASE Front!Lock
  <2>1. stack = <<>> /\ (real <=> calls > 0)
    BY <1>1, <1>3, StackOf DEF Front!Lock, Front!MayCall, FrontInv
  <2>2. CASE UNCHANGED stack
    BY <1>1, <1>3, <2>1, <2>2 DEF Front!Lock, Front!Push, FrontInv
  <2>3. CASE stack # stack'
    <3>1. stack' = Append(stack, [op |-> "lock", worst |-> 0])
      BY <1>3, <2>3 DEF Front!Lock, Front!Push
    <3>2. [op |-> "lock", worst |-> 0] \in Front!Frame
      BY DEF Front!Frame
    <3>3. stack' \in Seq(Front!Frame) /\ Len(stack') = 1 /\ stack'[1].op = "lock"
      BY <1>2, <2>1, <3>1, <3>2
    <3> QED
      BY <1>1, <1>3, <2>1, <2>3, <3>3 DEF Front!Lock, FrontInv
  <2> QED
    BY <2>2, <2>3
<1>4. CASE Front!Unlock
  <2>1. stack = <<>> /\ (real <=> calls > 0)
    BY <1>1, <1>4, StackOf DEF Front!Unlock, Front!MayCall, FrontInv
  <2>2. CASE UNCHANGED stack
    BY <1>1, <1>4, <2>1, <2>2 DEF Front!Unlock, Front!Push, FrontInv
  <2>3. CASE stack # stack'
    <3>1. stack' = Append(stack, [op |-> "unlock", worst |-> 0])
      BY <1>4, <2>3 DEF Front!Unlock, Front!Push
    <3>2. [op |-> "unlock", worst |-> 0] \in Front!Frame
      BY DEF Front!Frame
    <3>3. stack' \in Seq(Front!Frame) /\ Len(stack') = 1 /\ stack'[1].op = "unlock"
      BY <1>2, <2>1, <3>1, <3>2
    <3> QED
      BY <1>1, <1>4, <2>1, <2>3, <3>3 DEF Front!Unlock, FrontInv
  <2> QED
    BY <2>2, <2>3
<1>5. CASE Front!LockReturns \/ Front!UnlockReturns
  <2>1. /\ stack # <<>> /\ Len(stack) = 1 /\ stack' = <<>>
        /\ \/ stack[1].op = "lock" /\ calls' = calls + 1
           \/ stack[1].op = "unlock" /\ calls' = calls - 1
        /\ UNCHANGED <<real, failure, reports>>
    BY <1>2, <1>5, StackOf
       DEF Front!LockReturns, Front!UnlockReturns, Front!Top, Front!Pop, FrontInv
  <2> QED
    BY <1>1, <2>1 DEF FrontInv
<1>6. CASE Front!Query
  BY <1>6 DEF Front!Query, FrontInv
<1>7. CASE Front!Transact
  <2>1. stack = <<>> /\ (real <=> calls > 0)
    BY <1>7, StackOf DEF Front!Transact, FrontInv
  <2>2. CASE UNCHANGED stack
    BY <1>7, <2>1, <2>2 DEF Front!Transact, Front!Push, FrontInv
  <2>3. CASE stack # stack'
    <3>1. stack' = Append(stack, [op |-> "transact", worst |-> 0])
      BY <1>7, <2>3 DEF Front!Transact, Front!Push
    <3>2. [op |-> "transact", worst |-> 0] \in Front!Frame
      BY DEF Front!Frame
    <3>3. stack' \in Seq(Front!Frame) /\ Len(stack') = 1 /\ stack'[1].op = "transact"
      BY <1>2, <2>1, <3>1, <3>2
    <3> QED
      BY <1>7, <2>1, <2>3, <3>3 DEF Front!Transact, FrontInv
  <2> QED
    BY <2>2, <2>3
<1>8. CASE Front!TransactFails
  <2>1. PICK kind \in {Front!ABORT, Front!FATAL} :
          /\ failure' = Front!SetError(failure, kind)
          /\ stack' = [stack EXCEPT ![Len(stack)].worst = Front!Worse(@, kind)]
    BY <1>8 DEF Front!TransactFails
  <2> DEFINE f == [stack[1] EXCEPT !.worst = Front!Worse(@, kind)]
  <2>2. Len(stack) = 1 /\ stack \in Seq(Front!Frame) /\ stack # <<>>
    BY <1>2, <1>8 DEF Front!TransactFails, Front!Top, FrontInv
  <2>3. /\ stack' \in Seq(Front!Frame) /\ Len(stack') = 1
        /\ stack'[1].op = stack[1].op
    <3>1. stack' = [stack EXCEPT ![1] = f]
      BY <2>1, <2>2
    <3> QED
      BY <2>2, <3>1, WorstOf
  <2> QED
    BY <1>8, <2>1, <2>2, <2>3 DEF Front!TransactFails, Front!SetError, Front!Worse, FrontInv
<1>9. CASE Front!TransactReturns
  <2>1. /\ stack # <<>> /\ stack' = <<>> /\ stack[1].op = "transact"
        /\ stack[1] \in Front!Frame
        /\ reports' = <<stack[1].worst, failure>> /\ UNCHANGED <<calls, real, failure>>
    BY <1>2, <1>9, StackOf DEF Front!TransactReturns, Front!Top, Front!Pop, FrontInv
  <2>2. stack[1].worst \in {0, 1, 2}
    BY <2>1 DEF Front!Frame
  <2> QED
    BY <1>1, <1>2, <2>1, <2>2 DEF FrontInv
<1> QED
  BY <1>3, <1>4, <1>5, <1>6, <1>7, <1>8, <1>9 DEF Front!Next

\* Without handlers, only what fails in a transaction changes the error meanwhile.
LEMMA WorstKeeps ==
  ASSUME FrontInv, WorstInv, part' = part,
         \/ part = "front" /\ Front!Next
         \/ part = "front unhandled" /\ Unhandled!Next
         \/ UNCHANGED frontVars
  PROVE  WorstInv'
<1> USE DEF Front!NONE, Front!ABORT, Front!FATAL
<1>1. stack = <<>> \/ Len(stack) = 1
  BY DEF FrontInv
<1>2. CASE UNCHANGED frontVars \/ part # "front unhandled"
  BY <1>2 DEF WorstInv, frontVars
<1> SUFFICES ASSUME part = "front unhandled", Unhandled!Next PROVE WorstInv'
  BY <1>2
<1>3. Front!Next
  BY UnhandledStep
<1>4. reports[1] = reports[2]
      /\ (stack # <<>> /\ stack[1].op = "transact" => stack[1].worst = failure)
  BY DEF WorstInv
<1>5. CASE Unhandled!Lock \/ Unhandled!Unlock \/ Unhandled!Query
  <2>1. stack = <<>> /\ reports' = reports
    BY <1>5 DEF Unhandled!Lock, Unhandled!Unlock, Unhandled!Query, Unhandled!MayCall
  <2>2. \/ stack' = stack
        \/ stack' = Append(stack, [op |-> "lock", worst |-> 0])
        \/ stack' = Append(stack, [op |-> "unlock", worst |-> 0])
    BY <1>5 DEF Unhandled!Lock, Unhandled!Unlock, Unhandled!Query, Unhandled!Push, Unhandled!NONE
  <2>3. stack' = <<>> \/ stack'[1].op \in {"lock", "unlock"}
    BY <2>1, <2>2, FirstCall
  <2> QED
    BY <1>4, <2>1, <2>3 DEF WorstInv
<1>6. CASE Unhandled!LockReturns \/ Unhandled!UnlockReturns
  <2>1. stack' = <<>> /\ reports' = reports
    BY <1>1, <1>6, StackOf
       DEF FrontInv, Unhandled!LockReturns, Unhandled!UnlockReturns, Unhandled!Top, Unhandled!Pop,
           Unhandled!Front, Front!Front
  <2> QED
    BY <1>4, <2>1 DEF WorstInv
<1>7. CASE Unhandled!Transact
  <2>1. /\ stack = <<>>
        /\ \/ failure' = 0 /\ stack' = Append(stack, [op |-> "transact", worst |-> 0])
              /\ reports' = reports
           \/ reports' = <<1, 1>> /\ stack' = stack
    BY <1>7 DEF Unhandled!Transact, Unhandled!Push, Unhandled!NONE, Unhandled!ABORT
  <2>2. \/ stack' = <<>> /\ reports'[1] = reports'[2]
        \/ stack'[1].worst = 0 /\ failure' = 0 /\ reports' = reports
    <3>1. CASE reports' = <<1, 1>> /\ stack' = stack
      BY <2>1, <3>1
    <3>2. CASE /\ stack' = Append(stack, [op |-> "transact", worst |-> 0])
               /\ failure' = 0 /\ reports' = reports
      BY <2>1, <3>2, FirstCall
    <3> QED
      BY <2>1, <3>1, <3>2
  <2> QED
    BY <1>4, <2>2 DEF WorstInv
<1>8. CASE Unhandled!TransactFails
  <2>1. PICK kind \in {Front!ABORT, Front!FATAL} :
          /\ failure' = Front!Worse(failure, kind)
          /\ stack' = [stack EXCEPT ![Len(stack)].worst = Front!Worse(@, kind)]
    BY <1>8 DEF Unhandled!TransactFails, Unhandled!SetError, Unhandled!Worse, Front!Worse,
                Unhandled!ABORT, Unhandled!FATAL
  <2> DEFINE f == [stack[1] EXCEPT !.worst = Front!Worse(@, kind)]
  <2>2. /\ Len(stack) = 1 /\ stack \in Seq(Front!Frame) /\ stack # <<>>
        /\ stack[1].op = "transact" /\ reports' = reports
    BY <1>1, <1>8, StackOf DEF Unhandled!TransactFails, Unhandled!Top, FrontInv, Unhandled!Last,
                               Front!Last
  <2>3. stack' = [stack EXCEPT ![1] = f]
    BY <2>1, <2>2
  <2>4. stack'[1].worst = Front!Worse(stack[1].worst, kind)
    BY <2>2, <2>3, WorstOf
  <2> QED
    BY <1>4, <2>1, <2>2, <2>4 DEF WorstInv
<1>9. CASE Unhandled!TransactReturns
  <2>1. /\ stack # <<>> /\ stack' = <<>> /\ stack[1].op = "transact"
        /\ reports' = <<stack[1].worst, failure>>
    BY <1>1, <1>9, StackOf
       DEF Unhandled!TransactReturns, Unhandled!Top, Unhandled!Pop, FrontInv,
           Unhandled!Front, Front!Front, Unhandled!Last, Front!Last
  <2> QED
    BY <1>4, <2>1 DEF WorstInv
<1> QED
  BY <1>5, <1>6, <1>7, <1>8, <1>9 DEF Unhandled!Next

LEMMA FrontIsKept == ASSUME FrontInv, WorstInv, [Next]_vars PROVE FrontInv' /\ WorstInv'
<1>1. CASE UNCHANGED frontVars
  <2>1. UNCHANGED <<calls, real, failure, stack, reports>>
    BY <1>1 DEF frontVars
  <2> QED
    BY <2>1, FrontParts, WorstKeeps DEF FrontInv, frontVars
<1>2. CASE Front!Next
  BY <1>2, FrontKeeps, FrontParts, WorstKeeps
<1> QED
  BY <1>1, <1>2, FrontParts, UnhandledStep

\* How many calls in a stack are of a kind.
CallsOf(s, op) == Cardinality({i \in DOMAIN s : s[i].op = op})

LEMMA CallsOfStack ==
  ASSUME NEW s, s = <<>> \/ (s \in Seq(Front!Frame) /\ Len(s) = 1), NEW op
  PROVE  CallsOf(s, op) = IF s # <<>> /\ s[1].op = op THEN 1 ELSE 0
<1> DEFINE those == {i \in DOMAIN s : s[i].op = op}
<1>1. CASE s = <<>>
  <2>1. those = {}
    BY <1>1
  <2> QED
    BY <1>1, <2>1, FS_EmptySet DEF CallsOf
<1>2. CASE s \in Seq(Front!Frame) /\ Len(s) = 1
  <2>1. DOMAIN s = {1}
    BY <1>2
  <2>2. CASE s[1].op = op
    <3>1. those = {1} /\ s # <<>>
      BY <1>2, <2>1, <2>2
    <3> QED
      BY <2>2, <3>1, FS_Singleton DEF CallsOf
  <2>3. CASE s[1].op # op
    <3>1. those = {}
      BY <2>1, <2>3
    <3> QED
      BY <2>3, <3>1, FS_EmptySet DEF CallsOf
  <2> QED
    BY <2>2, <2>3
<1> QED
  BY <1>1, <1>2

\* How many locks are held by callers.
HeldOf(n, s) == n + CallsOf(s, "lock") - CallsOf(s, "unlock")
Held == HeldOf(calls, stack)

LEMMA HeldOfStack ==
  ASSUME NEW n \in Nat, NEW s, s = <<>> \/ (s \in Seq(Front!Frame) /\ Len(s) = 1)
  PROVE  /\ s = <<>> \/ s[1].op \notin {"lock", "unlock"} => HeldOf(n, s) = n
         /\ s # <<>> /\ s[1].op = "lock" => HeldOf(n, s) = n + 1
         /\ s # <<>> /\ s[1].op = "unlock" => HeldOf(n, s) = n - 1
<1> DEFINE k == CallsOf(s, "lock")  l == CallsOf(s, "unlock")
<1>1. /\ k = IF s # <<>> /\ s[1].op = "lock" THEN 1 ELSE 0
      /\ l = IF s # <<>> /\ s[1].op = "unlock" THEN 1 ELSE 0
  BY CallsOfStack
<1>2. HeldOf(n, s) = n + k - l
  BY DEF HeldOf
<1> HIDE DEF k, l
<1>3. CASE s = <<>> \/ s[1].op \notin {"lock", "unlock"}
  <2>1. k = 0 /\ l = 0
    BY <1>1, <1>3
  <2> QED
    BY <1>2, <1>3, <2>1
<1>4. CASE s # <<>> /\ s[1].op = "lock"
  <2>1. k = 1 /\ l = 0
    BY <1>1, <1>4
  <2> QED
    BY <1>2, <1>4, <2>1
<1>5. CASE s # <<>> /\ s[1].op = "unlock"
  <2>1. k = 0 /\ l = 1
    BY <1>1, <1>5
  <2> QED
    BY <1>2, <1>5, <2>1
<1> QED
  BY <1>3, <1>4, <1>5

\* The callers hold one more or one less than before, with the lock that goes with it.
LEMMA HeldStep ==
  ASSUME FrontInv, FrontInv', Front!Next
  PROVE  \/ Held' = Held + 1 /\ real' = TRUE
         \/ Held > 0 /\ Held' = Held - 1 /\ real' = (Held > 1)
         \/ Held' = Held /\ real' = real
<1>1. /\ calls \in Nat /\ calls' \in Nat /\ real \in BOOLEAN
      /\ stack = <<>> \/ (stack \in Seq(Front!Frame) /\ Len(stack) = 1)
      /\ stack' = <<>> \/ (stack' \in Seq(Front!Frame) /\ Len(stack') = 1)
  BY PartsAssumption DEF FrontInv, Front!PackmanAssumption
<1>2. /\ stack = <<>> \/ stack[1].op \notin {"lock", "unlock"} => Held = calls
      /\ stack # <<>> /\ stack[1].op = "lock" => Held = calls + 1
      /\ stack # <<>> /\ stack[1].op = "unlock" => Held = calls - 1
      /\ stack' = <<>> \/ stack'[1].op \notin {"lock", "unlock"} => Held' = calls'
      /\ stack' # <<>> /\ stack'[1].op = "lock" => Held' = calls' + 1
      /\ stack' # <<>> /\ stack'[1].op = "unlock" => Held' = calls' - 1
  BY <1>1, HeldOfStack DEF Held
<1>3. CASE Front!Lock
  <2>1. /\ stack = <<>> /\ (real <=> calls > 0)
        /\ \/ calls > 0 /\ calls' = calls + 1 /\ real' = real /\ stack' = stack
           \/ calls = 0 /\ calls' = calls /\ real' = TRUE /\ stack' # <<>> /\ stack'[1].op = "lock"
           \/ calls' = calls /\ real' = real /\ stack' = stack
    <3>1. stack = <<>> /\ (real <=> calls > 0)
      BY <1>1, <1>3, StackOf DEF Front!Lock, Front!MayCall, FrontInv
    <3>2. \/ calls > 0 /\ calls' = calls + 1 /\ real' = real /\ stack' = stack
          \/ /\ calls = 0 /\ calls' = calls /\ real' = TRUE
             /\ stack' = Append(stack, [op |-> "lock", worst |-> 0])
          \/ calls' = calls /\ real' = real /\ stack' = stack
      BY <1>3 DEF Front!Lock, Front!Push, Front!NONE
    <3>3. stack' = Append(stack, [op |-> "lock", worst |-> 0])
            => stack' # <<>> /\ stack'[1].op = "lock"
      BY <3>1, FirstCall
    <3> QED
      BY <3>1, <3>2, <3>3
  <2> QED
    BY <1>1, <1>2, <2>1
<1>4. CASE Front!Unlock
  <2>1. /\ stack = <<>> /\ (real <=> calls > 0)
        /\ \/ calls' = calls /\ real' = real /\ stack' = stack
           \/ calls = 1 /\ calls' = 1 /\ real' = FALSE /\ stack' # <<>> /\ stack'[1].op = "unlock"
           \/ calls > 1 /\ calls' = calls - 1 /\ real' = real /\ stack' = stack
    <3>1. stack = <<>> /\ (real <=> calls > 0)
      BY <1>1, <1>4, StackOf DEF Front!Unlock, Front!MayCall, FrontInv
    <3>2. \/ calls' = calls /\ real' = real /\ stack' = stack
          \/ /\ calls = 1 /\ calls' = 1 /\ real' = FALSE
             /\ stack' = Append(stack, [op |-> "unlock", worst |-> 0])
          \/ calls > 1 /\ calls' = calls - 1 /\ real' = real /\ stack' = stack
      BY <1>4 DEF Front!Unlock, Front!Push, Front!NONE
    <3>3. stack' = Append(stack, [op |-> "unlock", worst |-> 0])
            => stack' # <<>> /\ stack'[1].op = "unlock"
      BY <3>1, FirstCall
    <3> QED
      BY <3>1, <3>2, <3>3
  <2>2. CASE calls' = calls /\ real' = real /\ stack' = stack
    BY <1>2, <2>1, <2>2
  <2>3. CASE /\ calls = 1 /\ calls' = 1 /\ real' = FALSE
             /\ stack' # <<>> /\ stack'[1].op = "unlock"
    <3>1. Held = 1 /\ Held' = 0
      BY <1>2, <2>1, <2>3
    <3>2. Held > 0 /\ Held' = Held - 1 /\ (Held > 1) = FALSE
      BY <3>1
    <3> QED
      BY <2>3, <3>2, Zenon
  <2>4. CASE calls > 1 /\ calls' = calls - 1 /\ real' = real /\ stack' = stack
    BY <1>1, <1>2, <2>1, <2>4
  <2> QED
    BY <2>1, <2>2, <2>3, <2>4
<1>5. CASE Front!LockReturns \/ Front!UnlockReturns
  <2>1. /\ stack # <<>> /\ stack' = <<>> /\ real' = real
        /\ \/ stack[1].op = "lock" /\ calls' = calls + 1
           \/ stack[1].op = "unlock" /\ calls' = calls - 1
    BY <1>1, <1>5, StackOf
       DEF Front!LockReturns, Front!UnlockReturns, Front!Top, Front!Pop, FrontInv
  <2>2. Held' = calls'
    BY <1>2, <2>1
  <2>3. CASE stack[1].op = "lock" /\ calls' = calls + 1
    BY <1>2, <2>1, <2>2, <2>3
  <2>4. CASE stack[1].op = "unlock" /\ calls' = calls - 1
    BY <1>2, <2>1, <2>2, <2>4
  <2> QED
    BY <2>1, <2>3, <2>4
<1>6. ASSUME calls' = calls, real' = real,
             stack' = stack \/ ~(stack # <<>> /\ stack[1].op # "transact"),
             stack' = stack \/ ~(stack' # <<>> /\ stack'[1].op # "transact")
      PROVE  Held' = Held
  BY <1>1, <1>2, <1>6
<1>7. CASE Front!Query
  BY <1>6, <1>7 DEF Front!Query
<1>8. CASE Front!Transact
  <2>1. /\ stack = <<>> /\ calls' = calls /\ real' = real
        /\ \/ stack' = stack
           \/ stack' = Append(stack, [op |-> "transact", worst |-> 0])
    BY <1>8 DEF Front!Transact, Front!Push, Front!NONE
  <2>2. stack' = Append(stack, [op |-> "transact", worst |-> 0]) => stack'[1].op = "transact"
    BY <2>1, FirstCall
  <2> QED
    BY <1>6, <2>1, <2>2
<1>9. CASE Front!TransactFails
  <2>1. PICK kind \in {Front!ABORT, Front!FATAL} :
          stack' = [stack EXCEPT ![Len(stack)].worst = Front!Worse(@, kind)]
    BY <1>9 DEF Front!TransactFails
  <2> DEFINE f == [stack[1] EXCEPT !.worst = Front!Worse(@, kind)]
  <2>2. /\ Len(stack) = 1 /\ stack \in Seq(Front!Frame) /\ stack[1].op = "transact"
        /\ calls' = calls /\ real' = real
    BY <1>1, <1>9, StackOf DEF Front!TransactFails, Front!Top
  <2>3. stack' = [stack EXCEPT ![1] = f]
    BY <2>1, <2>2
  <2>4. stack'[1].op = "transact"
    BY <2>2, <2>3, WorstOf
  <2> QED
    BY <1>6, <2>2, <2>4
<1>10. CASE Front!TransactReturns
  <2>1. /\ stack # <<>> /\ stack' = <<>> /\ stack[1].op = "transact"
        /\ calls' = calls /\ real' = real
    BY <1>1, <1>10, StackOf DEF Front!TransactReturns, Front!Top, Front!Pop
  <2> QED
    BY <1>6, <2>1
<1> QED
  BY <1>3, <1>4, <1>5, <1>7, <1>8, <1>9, <1>10 DEF Front!Next

FrontsInv == FrontInv /\ WorstInv

LEMMA FrontsKept == FrontsInv /\ [Next]_vars => FrontsInv'
BY FrontIsKept DEF FrontsInv

\* The front end is a counting lock over the lock of the back end: every step of a caller
\* takes a lock, gives one back or changes nothing of it, although signals are emitted in
\* the middle of calls (rc_packman_lock, rc_packman_unlock).
THEOREM FrontIsCountingLock == Spec => IsCountingLock
<1>1. Init => FrontsInv
  BY FrontBegins DEF FrontsInv
<1>2. /\ Front!Pending("lock") = CallsOf(stack, "lock")
      /\ Front!Pending("unlock") = CallsOf(stack, "unlock")
      /\ Front!Pending("lock")' = CallsOf(stack', "lock")
      /\ Front!Pending("unlock")' = CallsOf(stack', "unlock")
  BY DEF CallsOf, Front!Pending, Cardinality, Front!Cardinality
<1>3. /\ calls + Front!Pending("lock") - Front!Pending("unlock") = Held
      /\ (calls + Front!Pending("lock") - Front!Pending("unlock"))' = Held'
  BY <1>2 DEF Held, HeldOf
<1>4. Init => Front!Abstract!Init
  <2> SUFFICES ASSUME Init PROVE Front!Abstract!Init
    OBVIOUS
  <2>1. Front!Init
    BY DEF Init
  <2>2. calls = 0 /\ real = FALSE /\ stack = <<>>
    BY <2>1 DEF Front!Init
  <2>3. Held = 0
    BY <2>2, HeldOfStack DEF Held
  <2> QED
    BY <1>3, <2>2, <2>3 DEF Front!Abstract!Init
<1>5. FrontsInv /\ FrontsInv' /\ [Next]_vars => [Front!Abstract!Next]_<<Held, real>>
  <2> SUFFICES ASSUME FrontInv, FrontInv', [Next]_vars
               PROVE  [Front!Abstract!Next]_<<Held, real>>
    BY DEF FrontsInv
  <2>1. CASE UNCHANGED frontVars
    BY <2>1 DEF frontVars, Held, HeldOf, CallsOf
  <2>2. CASE Front!Next
    <3>1. \/ Held' = Held + 1 /\ real' = TRUE
          \/ Held > 0 /\ Held' = Held - 1 /\ real' = (Held > 1)
          \/ Held' = Held /\ real' = real
      BY <2>2, HeldStep
    <3> QED
      BY <1>3, <3>1 DEF Front!Abstract!Next, Front!Abstract!Acquire, Front!Abstract!Release
  <2>3. UNCHANGED frontVars \/ Front!Next
    BY FrontParts, UnhandledStep
  <2> QED
    BY <2>1, <2>2, <2>3
<1>6. FrontsInv /\ FrontsInv' /\ [Next]_vars =>
        [Front!Abstract!Next]_<<calls + Front!Pending("lock") - Front!Pending("unlock"), real>>
  BY <1>3, <1>5
<1> QED
  BY <1>1, <1>4, <1>6, FrontsKept, PTL DEF Spec, IsCountingLock, Front!IsCountingLock,
     Front!Abstract!Spec


-----------------------------------------------------------------------------
(* System worlds *)

\* What is proved of system worlds, of one by itself and of one with a duplicate and
\* clients.
AloneP == INSTANCE SystemWorld_proofs WITH
  World <- {mounted}, Clients <- {}, Faults <- {"busy"}, MaxChange <- MaxAlone, MaxTime <- MaxAlone,
  MaxLock <- 0, NONE <- none, status <- opened, noted <- seen, watchers <- timers, job <- todo
SystemP == INSTANCE SystemWorld_proofs WITH
  World <- SystemWorlds, Clients <- {"lock", "query", "transact", "duplicate"},
  Faults <- {"read", "busy", "during", "second"}, MaxChange <- MaxSystem, MaxTime <- MaxSystem,
  NONE <- none, status <- opened, noted <- seen, watchers <- timers, job <- todo

\* Both instances say the same of each.
LEMMA AloneAgrees ==
  /\ Alone!SystemAssumption => AloneP!SystemAssumption
  /\ Alone!Init => AloneP!Init
  /\ AloneP!NoChangeIsLost => Alone!NoChangeIsLost
BY DEF Alone!SystemAssumption, AloneP!SystemAssumption, Alone!Init, AloneP!Init, Alone!Idle,
       AloneP!Idle, Alone!NoChangeIsLost, AloneP!NoChangeIsLost, Alone!Stale, AloneP!Stale,
       Alone!WillNotice, AloneP!WillNotice, Alone!Range, AloneP!Range

LEMMA AloneSteps ==
  ASSUME Alone!Next
  PROVE  AloneP!Next
BY DEF Alone!outside, Alone!handle, Alone!vars, Alone!Idle, Alone!Load, Alone!GoOn,
       Alone!Changed, Alone!Noted, Alone!Stale, Alone!Overlooked, Alone!OpenFails,
       Alone!Opens, Alone!Closes, Alone!Unloaded, Alone!LoadOpen, Alone!Leave,
       Alone!LoadRead, Alone!LoadFails, Alone!LoadClose, Alone!Check, Alone!Sync,
       Alone!Watch, Alone!Refresh, Alone!New, Alone!Duplicate, Alone!Finalize,
       Alone!TransactBegin, Alone!TransactStep, Alone!NestedSync, Alone!LeaveTransact,
       Alone!TransactFails, Alone!TransactDone, Alone!Lock, Alone!Unlock, Alone!Query,
       Alone!Tick, Alone!OtherChanges, Alone!OtherLocks, Alone!OtherUnlocks,
       Alone!YastStarts, Alone!YastEnds, Alone!Loading, Alone!Transacting,
       Alone!Clienting, Alone!Others, Alone!Next, Alone!Range, Alone!RemoveFirst,
       Alone!RemoveAt, Alone!SelectInSeq, Alone!Min, AloneP!outside, AloneP!handle,
       AloneP!vars, AloneP!Idle, AloneP!Load, AloneP!GoOn, AloneP!Changed,
       AloneP!Noted, AloneP!Stale, AloneP!Overlooked, AloneP!OpenFails, AloneP!Opens,
       AloneP!Closes, AloneP!Unloaded, AloneP!LoadOpen, AloneP!Leave, AloneP!LoadRead,
       AloneP!LoadFails, AloneP!LoadClose, AloneP!Check, AloneP!Sync, AloneP!Watch,
       AloneP!Refresh, AloneP!New, AloneP!Duplicate, AloneP!Finalize,
       AloneP!TransactBegin, AloneP!TransactStep, AloneP!NestedSync,
       AloneP!LeaveTransact, AloneP!TransactFails, AloneP!TransactDone, AloneP!Lock,
       AloneP!Unlock, AloneP!Query, AloneP!Tick, AloneP!OtherChanges,
       AloneP!OtherLocks, AloneP!OtherUnlocks, AloneP!YastStarts, AloneP!YastEnds,
       AloneP!Loading, AloneP!Transacting, AloneP!Clienting, AloneP!Others,
       AloneP!Next, AloneP!Range, AloneP!RemoveFirst, AloneP!RemoveAt,
       AloneP!SelectInSeq, AloneP!Min

LEMMA SystemAgrees ==
  /\ System!SystemAssumption => SystemP!SystemAssumption
  /\ System!Init => SystemP!Init
  /\ SystemP!TypeOK => System!TypeOK
BY DEF System!SystemAssumption, SystemP!SystemAssumption, System!Init, SystemP!Init, System!Idle,
       SystemP!Idle, System!TypeOK, SystemP!TypeOK, System!Job, SystemP!Job

LEMMA SystemSteps ==
  ASSUME System!Next
  PROVE  SystemP!Next
BY DEF System!outside, System!handle, System!vars, System!Idle, System!Load,
       System!GoOn, System!Changed, System!Noted, System!Stale, System!Overlooked,
       System!OpenFails, System!Opens, System!Closes, System!Unloaded,
       System!LoadOpen, System!Leave, System!LoadRead, System!LoadFails,
       System!LoadClose, System!Check, System!Sync, System!Watch, System!Refresh,
       System!New, System!Duplicate, System!Finalize, System!TransactBegin,
       System!TransactStep, System!NestedSync, System!LeaveTransact,
       System!TransactFails, System!TransactDone, System!Lock, System!Unlock,
       System!Query, System!Tick, System!OtherChanges, System!OtherLocks,
       System!OtherUnlocks, System!YastStarts, System!YastEnds, System!Loading,
       System!Transacting, System!Clienting, System!Others, System!Next, System!Range,
       System!RemoveFirst, System!RemoveAt, System!SelectInSeq, System!Min,
       SystemP!outside, SystemP!handle, SystemP!vars, SystemP!Idle, SystemP!Load,
       SystemP!GoOn, SystemP!Changed, SystemP!Noted, SystemP!Stale,
       SystemP!Overlooked, SystemP!OpenFails, SystemP!Opens, SystemP!Closes,
       SystemP!Unloaded, SystemP!LoadOpen, SystemP!Leave, SystemP!LoadRead,
       SystemP!LoadFails, SystemP!LoadClose, SystemP!Check, SystemP!Sync,
       SystemP!Watch, SystemP!Refresh, SystemP!New, SystemP!Duplicate,
       SystemP!Finalize, SystemP!TransactBegin, SystemP!TransactStep,
       SystemP!NestedSync, SystemP!LeaveTransact, SystemP!TransactFails,
       SystemP!TransactDone, SystemP!Lock, SystemP!Unlock, SystemP!Query,
       SystemP!Tick, SystemP!OtherChanges, SystemP!OtherLocks, SystemP!OtherUnlocks,
       SystemP!YastStarts, SystemP!YastEnds, SystemP!Loading, SystemP!Transacting,
       SystemP!Clienting, SystemP!Others, SystemP!Next, SystemP!Range,
       SystemP!RemoveFirst, SystemP!RemoveAt, SystemP!SelectInSeq, SystemP!Min

\* What does not mention the worlds and bounds is the same for both.
LEMMA AllAgree ==
  /\ AloneP!LossesAreExplained => System!LossesAreExplained
  /\ SystemP!LossesAreExplained => System!LossesAreExplained
  /\ AloneP!LockIsHeld \/ SystemP!LockIsHeld => System!LockIsHeld
  /\ AloneP!WatchedByOne \/ SystemP!WatchedByOne => System!WatchedByOne
BY DEF System!LossesAreExplained, AloneP!LossesAreExplained, SystemP!LossesAreExplained,
       System!Idle, AloneP!Idle, SystemP!Idle, System!Stale, AloneP!Stale, SystemP!Stale,
       System!WillNotice, AloneP!WillNotice, SystemP!WillNotice,
       System!Range, AloneP!Range, SystemP!Range,
       System!LockIsHeld, AloneP!LockIsHeld, SystemP!LockIsHeld,
       System!WatchedByOne, AloneP!WatchedByOne, SystemP!WatchedByOne

LEMMA SystemParts ==
  [Next]_vars =>
    /\ part' = part
    /\ \/ part = "system alone" /\ Alone!Next
       \/ part = "system" /\ System!Next
       \/ UNCHANGED systemVars
BY DEF Next, vars, systemVars

\* The parts that do not run stay at the beginning.
SystemsInv ==
  IF part = "system alone" THEN AloneP!SystemInv /\ AloneP!AloneInv ELSE SystemP!SystemInv

LEMMA SystemsBegin == Init => SystemsInv
<1> SUFFICES ASSUME Init PROVE SystemsInv
  OBVIOUS
<1>1. CASE part = "system alone"
  <2>1. AloneP!Init /\ AloneP!SystemAssumption
    BY <1>1, AloneAgrees, PartsAssumption DEF Init
  <2> QED
    BY <1>1, <2>1, AloneP!SystemInvBegins, AloneP!AloneInvBegins DEF SystemsInv
<1>2. CASE part # "system alone"
  <2>1. SystemP!Init /\ SystemP!SystemAssumption
    BY <1>2, SystemAgrees, PartsAssumption DEF Init
  <2> QED
    BY <1>2, <2>1, SystemP!SystemInvBegins DEF SystemsInv
<1> QED
  BY <1>1, <1>2

LEMMA SystemsKept == SystemsInv /\ [Next]_vars => SystemsInv'
<1> SUFFICES ASSUME SystemsInv, [Next]_vars PROVE SystemsInv'
  OBVIOUS
<1>1. CASE part = "system alone"
  <2>1. [AloneP!Next]_(AloneP!vars)
    BY <1>1, SystemParts, AloneSteps
       DEF systemVars, AloneP!vars, AloneP!outside, AloneP!handle
  <2>2. AloneP!SystemAssumption
    BY AloneAgrees, PartsAssumption
  <2>3. AloneP!ByItself
    BY DEF AloneP!ByItself
  <2>4. AloneP!SystemInv /\ AloneP!AloneInv
    BY <1>1 DEF SystemsInv
  <2>5. AloneP!StateInv /\ AloneP!HandleInv
    BY <2>4 DEF AloneP!SystemInv
  <2>6. AloneP!SystemInv'
    BY <2>1, <2>2, <2>4, AloneP!SystemInvKept
  <2>7. AloneP!AloneInv'
    BY <2>1, <2>3, <2>4, <2>5, AloneP!AloneInvKept
  <2>8. part' = "system alone"
    BY <1>1, SystemParts
  <2> QED
    BY <2>6, <2>7, <2>8 DEF SystemsInv
<1>2. CASE part # "system alone"
  <2>1. [SystemP!Next]_(SystemP!vars)
    BY <1>2, SystemParts, SystemSteps
       DEF systemVars, SystemP!vars, SystemP!outside, SystemP!handle
  <2>2. SystemP!SystemAssumption
    BY SystemAgrees, PartsAssumption
  <2>3. SystemP!SystemInv
    BY <1>2 DEF SystemsInv
  <2>4. SystemP!SystemInv'
    BY <2>1, <2>2, <2>3, SystemP!SystemInvKept
  <2>5. part' # "system alone"
    BY <1>2, SystemParts
  <2> QED
    BY <2>4, <2>5 DEF SystemsInv
<1> QED
  BY <1>1, <1>2

LEMMA SystemsGive == SystemsInv => ChangesAreSeen /\ LockedOrWatched
<1> SUFFICES ASSUME SystemsInv PROVE ChangesAreSeen /\ LockedOrWatched
  OBVIOUS
<1>1. CASE part = "system alone"
  <2>1. AloneP!NoChangeIsLost /\ AloneP!LossesAreExplained
    BY <1>1, AloneP!AloneInvGives, AloneP!LossInvGives DEF SystemsInv, AloneP!SystemInv
  <2>2. AloneP!LockIsHeld /\ AloneP!WatchedByOne
    BY <1>1, AloneP!HandleInvGives DEF SystemsInv, AloneP!SystemInv
  <2> QED
    BY <1>1, <2>1, <2>2, AloneAgrees, AllAgree DEF ChangesAreSeen, LockedOrWatched
<1>2. CASE part # "system alone"
  <2>1. SystemP!LossesAreExplained
    BY <1>2, SystemP!LossInvGives DEF SystemsInv, SystemP!SystemInv
  <2>2. SystemP!LockIsHeld /\ SystemP!WatchedByOne
    BY <1>2, SystemP!HandleInvGives DEF SystemsInv, SystemP!SystemInv
  <2>3. SystemP!TypeOK
    BY <1>2 DEF SystemsInv, SystemP!SystemInv, SystemP!StateInv
  <2> QED
    BY <1>2, <2>1, <2>2, <2>3, SystemAgrees, AllAgree DEF ChangesAreSeen, LockedOrWatched
<1> QED
  BY <1>1, <1>2

\* A system world by itself loses no change of the database, and with duplicates, clients
\* and failures changes are lost only in ways that have a name
\* (rc_rpmman_is_database_changed, close_database, rc_world_system_sync).
THEOREM NoChangeGoesUnseen == Spec => []ChangesAreSeen
BY SystemsBegin, SystemsKept, SystemsGive, PTL DEF Spec

\* A lock lasts until it is given back, and unless the database is open exactly one timer
\* watches it (open_database, the close_db flags).
THEOREM AlwaysLockedOrWatched == Spec => []LockedOrWatched
BY SystemsBegin, SystemsKept, SystemsGive, PTL DEF Spec


-----------------------------------------------------------------------------
(* The Debian back end *)

\* What is proved of it, for transactions of any kind and for one that does act.
DebmanP == INSTANCE Debman_proofs WITH
  Package <- DebPackage, Lost <- none, Installed0 <- DebInstalled, Flags <- BOOLEAN,
  Failures <- {"write", "dry", "fork", "dpkg", "input", "crash", "other"},
  MaxChanges <- MaxOthers, MaxLocks <- MaxHeld
OnceP == INSTANCE Debman_proofs WITH
  Package <- DebPackage, Lost <- none, Installed0 <- DebInstalled, Flags <- {FALSE},
  Failures <- {"write", "dry", "fork", "dpkg", "input", "crash", "other"},
  MaxTransactions <- 1, MaxChanges <- MaxOthers, MaxLocks <- MaxHeld

LEMMA DebmanAgrees ==
  /\ Debman!DebmanAssumption => DebmanP!DebmanAssumption
  /\ Debman!Init => DebmanP!Init
  /\ DebmanP!TypeOK => Debman!TypeOK
BY DEF Debman!DebmanAssumption, DebmanP!DebmanAssumption, Debman!Stanza, DebmanP!Stanza,
       Debman!Want, DebmanP!Want, Debman!Flag, DebmanP!Flag, Debman!State, DebmanP!State,
       Debman!Init, DebmanP!Init, Debman!S, DebmanP!S, Debman!NoCache, DebmanP!NoCache,
       Debman!NoRequest, DebmanP!NoRequest, Debman!TypeOK, DebmanP!TypeOK, Debman!File,
       DebmanP!File, Debman!Moves, DebmanP!Moves

LEMMA DebmanSteps ==
  ASSUME Debman!Next
  PROVE  DebmanP!Next
BY DEF Debman!Want, Debman!Flag, Debman!State, Debman!Stanza, Debman!File, Debman!S,
       Debman!InState, Debman!IsMarked, Debman!Marked, Debman!Mark, Debman!IsBroken,
       Debman!Verified, Debman!CanVerify, Debman!Verify, Debman!Query,
       Debman!Unpacked, Debman!Purged, Debman!Configured, Debman!ABORT, Debman!FATAL,
       Debman!NoRequest, Debman!NoCache, Debman!lockVars, Debman!fileVars,
       Debman!runVars, Debman!history, Debman!bounds, Debman!vars, Debman!Idle,
       Debman!SetError, Debman!Write, Debman!CanLock, Debman!Lock, Debman!Noted,
       Debman!Unlock, Debman!PackmanLock, Debman!PackmanUnlock, Debman!QueryAll,
       Debman!Check, Debman!Requests, Debman!Start, Debman!Fail, Debman!MarkStatus,
       Debman!MarkStatusFails, Debman!DryRun, Debman!StartChild, Debman!ForkFails,
       Debman!UnpackWork, Debman!PurgeWork, Debman!ConfigureWork, Debman!Work,
       Debman!ChildWorks, Debman!Halfway, Debman!ChildFails, Debman!ChildAsks,
       Debman!Poll, Debman!Reap, Debman!End, Debman!VerifySucceeds,
       Debman!VerifyFails, Debman!VerifyCannotLock, Debman!OtherLocks,
       Debman!OtherChanges, Debman!OtherUnlocks, Debman!Crash, Debman!Restart,
       Debman!ChildEnds, Debman!ChildGoesOn, Debman!Transacting, Debman!Next,
       Debman!IsStale, Debman!LockIsHeld, Debman!NoActDoesNothing,
       Debman!KilledHasAsked, Debman!MarksAreFixed, DebmanP!Want, DebmanP!Flag,
       DebmanP!State, DebmanP!Stanza, DebmanP!File, DebmanP!S, DebmanP!InState,
       DebmanP!IsMarked, DebmanP!Marked, DebmanP!Mark, DebmanP!IsBroken,
       DebmanP!Verified, DebmanP!CanVerify, DebmanP!Verify, DebmanP!Query,
       DebmanP!Unpacked, DebmanP!Purged, DebmanP!Configured, DebmanP!ABORT,
       DebmanP!FATAL, DebmanP!NoRequest, DebmanP!NoCache, DebmanP!lockVars,
       DebmanP!fileVars, DebmanP!runVars, DebmanP!history, DebmanP!bounds,
       DebmanP!vars, DebmanP!Idle, DebmanP!SetError, DebmanP!Write, DebmanP!CanLock,
       DebmanP!Lock, DebmanP!Noted, DebmanP!Unlock, DebmanP!PackmanLock,
       DebmanP!PackmanUnlock, DebmanP!QueryAll, DebmanP!Check, DebmanP!Requests,
       DebmanP!Start, DebmanP!Fail, DebmanP!MarkStatus, DebmanP!MarkStatusFails,
       DebmanP!DryRun, DebmanP!StartChild, DebmanP!ForkFails, DebmanP!UnpackWork,
       DebmanP!PurgeWork, DebmanP!ConfigureWork, DebmanP!Work, DebmanP!ChildWorks,
       DebmanP!Halfway, DebmanP!ChildFails, DebmanP!ChildAsks, DebmanP!Poll,
       DebmanP!Reap, DebmanP!End, DebmanP!VerifySucceeds, DebmanP!VerifyFails,
       DebmanP!VerifyCannotLock, DebmanP!OtherLocks, DebmanP!OtherChanges,
       DebmanP!OtherUnlocks, DebmanP!Crash, DebmanP!Restart, DebmanP!ChildEnds,
       DebmanP!ChildGoesOn, DebmanP!Transacting, DebmanP!Next, DebmanP!IsStale,
       DebmanP!LockIsHeld, DebmanP!NoActDoesNothing, DebmanP!KilledHasAsked,
       DebmanP!MarksAreFixed

LEMMA OnceAgrees ==
  /\ Once!DebmanAssumption => OnceP!DebmanAssumption
  /\ Debman!Init => OnceP!Init
BY DEF Once!DebmanAssumption, OnceP!DebmanAssumption, Once!Stanza, OnceP!Stanza,
       Once!Want, OnceP!Want, Once!Flag, OnceP!Flag, Once!State, OnceP!State,
       Debman!Init, OnceP!Init, Debman!S, OnceP!S, Debman!NoCache, OnceP!NoCache,
       Debman!NoRequest, OnceP!NoRequest

LEMMA OnceSteps ==
  ASSUME Once!Next
  PROVE  OnceP!Next
BY DEF Once!Want, Once!Flag, Once!State, Once!Stanza, Once!File, Once!S, Once!InState,
       Once!IsMarked, Once!Marked, Once!Mark, Once!IsBroken, Once!Verified,
       Once!CanVerify, Once!Verify, Once!Query, Once!Unpacked, Once!Purged,
       Once!Configured, Once!ABORT, Once!FATAL, Once!NoRequest, Once!NoCache,
       Once!lockVars, Once!fileVars, Once!runVars, Once!history, Once!bounds,
       Once!vars, Once!Idle, Once!SetError, Once!Write, Once!CanLock, Once!Lock,
       Once!Noted, Once!Unlock, Once!PackmanLock, Once!PackmanUnlock, Once!QueryAll,
       Once!Check, Once!Requests, Once!Start, Once!Fail, Once!MarkStatus,
       Once!MarkStatusFails, Once!DryRun, Once!StartChild, Once!ForkFails,
       Once!UnpackWork, Once!PurgeWork, Once!ConfigureWork, Once!Work,
       Once!ChildWorks, Once!Halfway, Once!ChildFails, Once!ChildAsks, Once!Poll,
       Once!Reap, Once!End, Once!VerifySucceeds, Once!VerifyFails,
       Once!VerifyCannotLock, Once!OtherLocks, Once!OtherChanges, Once!OtherUnlocks,
       Once!Crash, Once!Restart, Once!ChildEnds, Once!ChildGoesOn, Once!Transacting,
       Once!Next, Once!IsStale, Once!LockIsHeld, Once!NoActDoesNothing,
       Once!KilledHasAsked, Once!MarksAreFixed, OnceP!Want, OnceP!Flag, OnceP!State,
       OnceP!Stanza, OnceP!File, OnceP!S, OnceP!InState, OnceP!IsMarked, OnceP!Marked,
       OnceP!Mark, OnceP!IsBroken, OnceP!Verified, OnceP!CanVerify, OnceP!Verify,
       OnceP!Query, OnceP!Unpacked, OnceP!Purged, OnceP!Configured, OnceP!ABORT,
       OnceP!FATAL, OnceP!NoRequest, OnceP!NoCache, OnceP!lockVars, OnceP!fileVars,
       OnceP!runVars, OnceP!history, OnceP!bounds, OnceP!vars, OnceP!Idle,
       OnceP!SetError, OnceP!Write, OnceP!CanLock, OnceP!Lock, OnceP!Noted,
       OnceP!Unlock, OnceP!PackmanLock, OnceP!PackmanUnlock, OnceP!QueryAll,
       OnceP!Check, OnceP!Requests, OnceP!Start, OnceP!Fail, OnceP!MarkStatus,
       OnceP!MarkStatusFails, OnceP!DryRun, OnceP!StartChild, OnceP!ForkFails,
       OnceP!UnpackWork, OnceP!PurgeWork, OnceP!ConfigureWork, OnceP!Work,
       OnceP!ChildWorks, OnceP!Halfway, OnceP!ChildFails, OnceP!ChildAsks, OnceP!Poll,
       OnceP!Reap, OnceP!End, OnceP!VerifySucceeds, OnceP!VerifyFails,
       OnceP!VerifyCannotLock, OnceP!OtherLocks, OnceP!OtherChanges,
       OnceP!OtherUnlocks, OnceP!Crash, OnceP!Restart, OnceP!ChildEnds,
       OnceP!ChildGoesOn, OnceP!Transacting, OnceP!Next, OnceP!IsStale,
       OnceP!LockIsHeld, OnceP!NoActDoesNothing, OnceP!KilledHasAsked,
       OnceP!MarksAreFixed

\* What does not mention the bounds is the same for both.
LEMMA DebmansAgree ==
  /\ DebmanP!DpkgIsNotBlocked \/ OnceP!DpkgIsNotBlocked => Debman!DpkgIsNotBlocked
  /\ DebmanP!LockIsGivenBack \/ OnceP!LockIsGivenBack => Debman!LockIsGivenBack
  /\ DebmanP!WatchedUnlessLocked \/ OnceP!WatchedUnlessLocked => Debman!WatchedUnlessLocked
  /\ DebmanP!PurgedWereAsked \/ OnceP!PurgedWereAsked => Debman!PurgedWereAsked
BY DEF Debman!DpkgIsNotBlocked, DebmanP!DpkgIsNotBlocked, OnceP!DpkgIsNotBlocked,
       Debman!LockIsGivenBack, DebmanP!LockIsGivenBack, OnceP!LockIsGivenBack,
       Debman!Idle, DebmanP!Idle, OnceP!Idle,
       Debman!WatchedUnlessLocked, DebmanP!WatchedUnlessLocked, OnceP!WatchedUnlessLocked,
       Debman!PurgedWereAsked, DebmanP!PurgedWereAsked, OnceP!PurgedWereAsked

LEMMA DebmansAgreeOnSuccess ==
  /\ DebmanP!SuccessMeansDone => Debman!SuccessMeansDone
  /\ OnceP!SuccessMeansDone => Debman!SuccessMeansDone
  /\ DebmanP!Marked(status') = Debman!Marked(status')
  /\ OnceP!Marked(status') = Debman!Marked(status')
BY DEF Debman!SuccessMeansDone, DebmanP!SuccessMeansDone, OnceP!SuccessMeansDone,
       Debman!Query, DebmanP!Query, OnceP!Query, Debman!InState, DebmanP!InState, OnceP!InState,
       Debman!Marked, DebmanP!Marked, OnceP!Marked, Debman!IsMarked, DebmanP!IsMarked, OnceP!IsMarked

LEMMA DebmanParts ==
  [Next]_vars =>
    /\ part' = part
    /\ \/ part = "debman" /\ Debman!Next
       \/ part = "debman once" /\ Once!Next
       \/ UNCHANGED debmanVars
BY DEF Next, vars, debmanVars

DebmansInv ==
  IF part = "debman once"
  THEN OnceP!LockInv /\ OnceP!PhaseInv /\ OnceP!MarksInv
  ELSE DebmanP!LockInv /\ DebmanP!PhaseInv /\ DebmanP!MarksInv

LEMMA DebmansBegin == Init => DebmansInv
<1> SUFFICES ASSUME Init PROVE DebmansInv
  OBVIOUS
<1>1. CASE part = "debman once"
  <2>1. OnceP!Init /\ OnceP!DebmanAssumption
    BY OnceAgrees, PartsAssumption DEF Init
  <2> QED
    BY <1>1, <2>1, OnceP!LockInvBegins, OnceP!PhaseInvBegins, OnceP!MarksInvBegins DEF DebmansInv
<1>2. CASE part # "debman once"
  <2>1. DebmanP!Init /\ DebmanP!DebmanAssumption
    BY DebmanAgrees, PartsAssumption DEF Init
  <2> QED
    BY <1>2, <2>1, DebmanP!LockInvBegins, DebmanP!PhaseInvBegins, DebmanP!MarksInvBegins
       DEF DebmansInv
<1> QED
  BY <1>1, <1>2

\* Each step of the parts is a step of one instance.
LEMMA DebmanStep ==
  ASSUME [Next]_vars, part # "debman once"
  PROVE  DebmanP!DebmanAssumption /\ [DebmanP!Next]_(DebmanP!vars)
<1>1. DebmanP!DebmanAssumption
  BY DebmanAgrees, PartsAssumption
<1>2. UNCHANGED debmanVars => UNCHANGED DebmanP!vars
  BY DEF debmanVars, DebmanP!vars, DebmanP!fileVars, DebmanP!lockVars, DebmanP!runVars,
         DebmanP!history, DebmanP!bounds
<1> QED
  BY <1>1, <1>2, DebmanParts, DebmanSteps

LEMMA OnceStep ==
  ASSUME [Next]_vars, part = "debman once"
  PROVE  OnceP!DebmanAssumption /\ [OnceP!Next]_(OnceP!vars)
<1>1. OnceP!DebmanAssumption
  BY OnceAgrees, PartsAssumption
<1>2. UNCHANGED debmanVars => UNCHANGED OnceP!vars
  BY DEF debmanVars, OnceP!vars, OnceP!fileVars, OnceP!lockVars, OnceP!runVars,
         OnceP!history, OnceP!bounds
<1> QED
  BY <1>1, <1>2, DebmanParts, OnceSteps

LEMMA DebmansKept == DebmansInv /\ [Next]_vars => DebmansInv'
<1> SUFFICES ASSUME DebmansInv, [Next]_vars PROVE DebmansInv'
  OBVIOUS
<1>1. CASE part = "debman once"
  <2>1. OnceP!DebmanAssumption /\ [OnceP!Next]_(OnceP!vars)
    BY <1>1, OnceStep
  <2>2. OnceP!LockInv /\ OnceP!PhaseInv /\ OnceP!MarksInv
    BY <1>1 DEF DebmansInv
  <2>3. OnceP!LockInv' /\ OnceP!PhaseInv' /\ OnceP!MarksInv'
    BY <2>1, <2>2, OnceP!LockInvKept, OnceP!PhaseInvKept, OnceP!MarksInvKept
  <2> QED
    BY <1>1, <2>3, DebmanParts DEF DebmansInv
<1>2. CASE part # "debman once"
  <2>1. DebmanP!DebmanAssumption /\ [DebmanP!Next]_(DebmanP!vars)
    BY <1>2, DebmanStep
  <2>2. DebmanP!LockInv /\ DebmanP!PhaseInv /\ DebmanP!MarksInv
    BY <1>2 DEF DebmansInv
  <2>3. DebmanP!LockInv' /\ DebmanP!PhaseInv' /\ DebmanP!MarksInv'
    BY <2>1, <2>2, DebmanP!LockInvKept, DebmanP!PhaseInvKept, DebmanP!MarksInvKept
  <2> QED
    BY <1>2, <2>3, DebmanParts DEF DebmansInv
<1> QED
  BY <1>1, <1>2

LEMMA DebmansGive == DebmansInv => LockIsPassedOn /\ OnlyWhatWasAsked
<1> SUFFICES ASSUME DebmansInv PROVE LockIsPassedOn /\ OnlyWhatWasAsked
  OBVIOUS
<1>1. CASE part = "debman once"
  <2>1. /\ OnceP!DpkgIsNotBlocked /\ OnceP!LockIsGivenBack /\ OnceP!WatchedUnlessLocked
        /\ OnceP!SuccessMeansDone /\ OnceP!PurgedWereAsked
    BY <1>1, OnceP!LockInvGives, OnceP!PhaseInvGives
       DEF DebmansInv, OnceP!MarksInv, OnceP!PurgedWereAsked
  <2> QED
    BY <1>1, <2>1, DebmansAgree, DebmansAgreeOnSuccess DEF LockIsPassedOn, OnlyWhatWasAsked
<1>2. CASE part # "debman once"
  <2>1. /\ DebmanP!DpkgIsNotBlocked /\ DebmanP!LockIsGivenBack /\ DebmanP!WatchedUnlessLocked
        /\ DebmanP!SuccessMeansDone /\ DebmanP!PurgedWereAsked /\ DebmanP!TypeOK
    BY <1>2, DebmanP!LockInvGives, DebmanP!PhaseInvGives
       DEF DebmansInv, DebmanP!LockInv, DebmanP!MarksInv, DebmanP!PurgedWereAsked
  <2> QED
    BY <1>2, <2>1, DebmanAgrees, DebmansAgree, DebmansAgreeOnSuccess
       DEF LockIsPassedOn, OnlyWhatWasAsked
<1> QED
  BY <1>1, <1>2

\* dpkg can get the lock that was given up for it, afterwards it is only held for a client,
\* and while it is not held a timer watches for changes (do_unpack, do_purge, do_configure,
\* rc_debman_transact, unlock_database).
THEOREM LockIsAlwaysPassedOn == Spec => []LockIsPassedOn
BY DebmansBegin, DebmansKept, DebmansGive, PTL DEF Spec

\* A transaction without an error has done what it was to do, and nothing is ever removed
\* that no transaction was to remove (rc_debman_transact, mark_status, verify_status).
THEOREM OnlyWhatWasAskedIsDone == Spec => []OnlyWhatWasAsked
BY DebmansBegin, DebmansKept, DebmansGive, PTL DEF Spec

LEMMA MarksStep ==
  ASSUME DebmansInv, [Next]_vars, pc \in {"verify", "init"}, pc' = "idle",
         Debman!Marked(status') # {}
  PROVE  error' # 0
<1>1. CASE part = "debman once"
  <2>1. OnceP!LockInv /\ OnceP!Marked(status') # {}
    BY <1>1, DebmansAgreeOnSuccess DEF DebmansInv
  <2> QED
    BY <1>1, <2>1, OnceStep, OnceP!MarksLeftStep
<1>2. CASE part # "debman once"
  <2>1. DebmanP!LockInv /\ DebmanP!Marked(status') # {}
    BY <1>2, DebmansAgreeOnSuccess DEF DebmansInv
  <2> QED
    BY <1>2, <2>1, DebmanStep, DebmanP!MarksLeftStep
<1> QED
  BY <1>1, <1>2

LEMMA FrontTypes ==
  FrontsInv => Front!TypeOK /\ (part = "front unhandled" => Unhandled!FailuresAreReported)
<1> SUFFICES ASSUME FrontInv, WorstInv
             PROVE  Front!TypeOK /\ (part = "front unhandled" => Unhandled!FailuresAreReported)
  BY DEF FrontsInv
<1>1. MaxCalls \in Nat /\ MaxDepth \in Nat \ {0}
  BY PartsAssumption DEF Front!PackmanAssumption
<1>2. calls \in -MaxDepth..(MaxCalls + MaxDepth) /\ Len(stack) <= MaxDepth
  BY <1>1 DEF FrontInv
<1> QED
  BY <1>2 DEF FrontInv, WorstInv, Front!TypeOK, Unhandled!FailuresAreReported

\* Marks for removal that are left behind are reported, and of several errors in a
\* transaction the worst is what the caller sees, unless a handler has called the front end
\* meanwhile (verify_status, rc_packman_set_error, rc_packman_clear_error).
THEOREM FailuresAreAlwaysReported == Spec => FailuresAreReported
<1>1. DebmansInv /\ [Next]_vars =>
        [(pc \in {"verify", "init"} /\ pc' = "idle" /\ Debman!Marked(status') # {})
           => error' # 0]_(Debman!vars)
  BY MarksStep
<1>2. Init => FrontsInv
  BY FrontBegins DEF FrontsInv
<1> QED
  BY <1>1, <1>2, FrontsKept, FrontTypes, DebmansBegin, DebmansKept, PTL
     DEF Spec, FailuresAreReported, Debman!MarksLeftAreReported


-----------------------------------------------------------------------------
(* The RPM back end *)

\* What is proved of it, for rpm 4.1, for an earlier one under a lock of the client and
\* for rpm 4.1 under such a lock.
RpmP == INSTANCE RpmTransact_proofs WITH
  Package <- RpmPackage, NameOf <- RpmName, Obsoletes <- RpmObsoletes,
  InstallOnly <- RpmInstallOnly, Keeps <- TRUE,
  Locks <- FALSE, asked <- wanted
RpmOldP == INSTANCE RpmTransact_proofs WITH
  Package <- RpmPackage, NameOf <- RpmName, Obsoletes <- RpmObsoletes,
  InstallOnly <- RpmInstallOnly, Keeps <- FALSE,
  Locks <- TRUE, asked <- wanted
RpmLockedP == INSTANCE RpmTransact_proofs WITH
  Package <- RpmPackage, NameOf <- RpmName, Obsoletes <- RpmObsoletes,
  InstallOnly <- RpmInstallOnly, Keeps <- TRUE,
  Locks <- TRUE, asked <- wanted

LEMMA RpmsAgree ==
  /\ RpmP!RpmTransactAssumption /\ RpmOldP!RpmTransactAssumption
  /\ RpmLockedP!RpmTransactAssumption
<1>1. /\ Rpm!RpmTransactAssumption /\ RpmOld!RpmTransactAssumption
      /\ RpmLocked!RpmTransactAssumption
  BY PartsAssumption
<1>2. Rpm!RpmTransactAssumption => RpmP!RpmTransactAssumption
  BY DEF Rpm!RpmTransactAssumption, RpmP!RpmTransactAssumption, Rpm!IsFiniteSet, RpmP!IsFiniteSet
<1>3. RpmOld!RpmTransactAssumption => RpmOldP!RpmTransactAssumption
  BY DEF RpmOld!RpmTransactAssumption, RpmOldP!RpmTransactAssumption, RpmOld!IsFiniteSet,
         RpmOldP!IsFiniteSet
<1>4. RpmLocked!RpmTransactAssumption => RpmLockedP!RpmTransactAssumption
  BY DEF RpmLocked!RpmTransactAssumption, RpmLockedP!RpmTransactAssumption,
         RpmLocked!IsFiniteSet, RpmLockedP!IsFiniteSet
<1> QED
  BY <1>1, <1>2, <1>3, <1>4

LEMMA RpmsAgreeInit ==
  ASSUME Rpm!Init
  PROVE  RpmP!Init /\ RpmOldP!Init /\ RpmLockedP!Init
BY DEF Rpm!Init, RpmP!Init, RpmOldP!Init, RpmLockedP!Init, Rpm!Consistent, RpmP!Consistent,
       RpmOldP!Consistent, RpmLockedP!Consistent, Rpm!Same, RpmP!Same, RpmOldP!Same,
       RpmLockedP!Same, Rpm!NoJob, RpmP!NoJob, RpmOldP!NoJob, RpmLockedP!NoJob,
       Rpm!NoRequest, RpmP!NoRequest, RpmOldP!NoRequest, RpmLockedP!NoRequest

LEMMA RpmSteps ==
  ASSUME Rpm!Next
  PROVE  RpmP!Next
BY DEF Rpm!NoJob, Rpm!NoRequest, Rpm!Same, Rpm!Lock, Rpm!Unlock, Rpm!End,
       Rpm!Requests, Rpm!Begin, Rpm!Transact, Rpm!TransactFails, Rpm!AddInstall,
       Rpm!AddInstallFails, Rpm!Obsoleted, Rpm!RealRemoves, Rpm!AddDone, Rpm!AddErase,
       Rpm!AddEraseFails, Rpm!Upgrades, Rpm!EraseDone, Rpm!CheckFails, Rpm!Run,
       Rpm!Step, Rpm!TransProgress, Rpm!Ousts, Rpm!Replaces, Rpm!InstStart, Rpm!Uninst, Rpm!RunFails,
       Rpm!RunDone, Rpm!Next, Rpm!Cardinality, RpmP!NoJob, RpmP!NoRequest, RpmP!Same,
       RpmP!Lock, RpmP!Unlock, RpmP!End, RpmP!Requests, RpmP!Begin, RpmP!Transact,
       RpmP!TransactFails, RpmP!AddInstall, RpmP!AddInstallFails, RpmP!Obsoleted,
       RpmP!RealRemoves, RpmP!AddDone, RpmP!AddErase, RpmP!AddEraseFails,
       RpmP!Upgrades, RpmP!EraseDone, RpmP!CheckFails, RpmP!Run, RpmP!Step,
       RpmP!TransProgress, RpmP!Ousts, RpmP!Replaces, RpmP!InstStart, RpmP!Uninst, RpmP!RunFails, RpmP!RunDone,
       RpmP!Next, RpmP!Cardinality

LEMMA RpmOldSteps ==
  ASSUME RpmOld!Next
  PROVE  RpmOldP!Next
BY DEF RpmOld!NoJob, RpmOld!NoRequest, RpmOld!Same, RpmOld!Lock, RpmOld!Unlock,
       RpmOld!End, RpmOld!Requests, RpmOld!Begin, RpmOld!Transact,
       RpmOld!TransactFails, RpmOld!AddInstall, RpmOld!AddInstallFails,
       RpmOld!Obsoleted, RpmOld!RealRemoves, RpmOld!AddDone, RpmOld!AddErase,
       RpmOld!AddEraseFails, RpmOld!Upgrades, RpmOld!EraseDone, RpmOld!CheckFails,
       RpmOld!Run, RpmOld!Step, RpmOld!TransProgress, RpmOld!Ousts, RpmOld!Replaces, RpmOld!InstStart, RpmOld!Uninst,
       RpmOld!RunFails, RpmOld!RunDone, RpmOld!Next, RpmOld!Cardinality,
       RpmOldP!NoJob, RpmOldP!NoRequest, RpmOldP!Same, RpmOldP!Lock, RpmOldP!Unlock,
       RpmOldP!End, RpmOldP!Requests, RpmOldP!Begin, RpmOldP!Transact,
       RpmOldP!TransactFails, RpmOldP!AddInstall, RpmOldP!AddInstallFails,
       RpmOldP!Obsoleted, RpmOldP!RealRemoves, RpmOldP!AddDone, RpmOldP!AddErase,
       RpmOldP!AddEraseFails, RpmOldP!Upgrades, RpmOldP!EraseDone, RpmOldP!CheckFails,
       RpmOldP!Run, RpmOldP!Step, RpmOldP!TransProgress, RpmOldP!Ousts, RpmOldP!Replaces, RpmOldP!InstStart,
       RpmOldP!Uninst, RpmOldP!RunFails, RpmOldP!RunDone, RpmOldP!Next,
       RpmOldP!Cardinality

LEMMA RpmLockedSteps ==
  ASSUME RpmLocked!Next
  PROVE  RpmLockedP!Next
BY DEF RpmLocked!NoJob, RpmLocked!NoRequest, RpmLocked!Same, RpmLocked!Lock,
       RpmLocked!Unlock, RpmLocked!End, RpmLocked!Requests, RpmLocked!Begin,
       RpmLocked!Transact, RpmLocked!TransactFails, RpmLocked!AddInstall,
       RpmLocked!AddInstallFails, RpmLocked!Obsoleted, RpmLocked!RealRemoves,
       RpmLocked!AddDone, RpmLocked!AddErase, RpmLocked!AddEraseFails,
       RpmLocked!Upgrades, RpmLocked!EraseDone, RpmLocked!CheckFails, RpmLocked!Run,
       RpmLocked!Step, RpmLocked!TransProgress, RpmLocked!Ousts, RpmLocked!Replaces, RpmLocked!InstStart, RpmLocked!Uninst,
       RpmLocked!RunFails, RpmLocked!RunDone, RpmLocked!Next, RpmLocked!Cardinality,
       RpmLockedP!NoJob, RpmLockedP!NoRequest, RpmLockedP!Same, RpmLockedP!Lock,
       RpmLockedP!Unlock, RpmLockedP!End, RpmLockedP!Requests, RpmLockedP!Begin,
       RpmLockedP!Transact, RpmLockedP!TransactFails, RpmLockedP!AddInstall,
       RpmLockedP!AddInstallFails, RpmLockedP!Obsoleted, RpmLockedP!RealRemoves,
       RpmLockedP!AddDone, RpmLockedP!AddErase, RpmLockedP!AddEraseFails,
       RpmLockedP!Upgrades, RpmLockedP!EraseDone, RpmLockedP!CheckFails,
       RpmLockedP!Run, RpmLockedP!Step, RpmLockedP!TransProgress,
       RpmLockedP!Ousts, RpmLockedP!Replaces, RpmLockedP!InstStart, RpmLockedP!Uninst, RpmLockedP!RunFails,
       RpmLockedP!RunDone, RpmLockedP!Next, RpmLockedP!Cardinality

\* What is promised is said in the same words by the modules' instances.
LEMMA RpmPromises ==
  /\ RpmP!TypeOK => Rpm!TypeOK
  /\ RpmP!DoneMeansDone => Rpm!DoneMeansDone
  /\ RpmP!ObsoletedAreLeftToRpm => Rpm!ObsoletedAreLeftToRpm
  /\ RpmP!StepsStayInTotal => Rpm!StepsStayInTotal
  /\ RpmOldP!RunsWhatIsAsked => RpmOld!RunsWhatIsAsked
  /\ RpmP!DatabaseIsGivenBack => RpmOld!DatabaseIsGivenBack
  /\ RpmOldP!DatabaseIsGivenBack => RpmOld!DatabaseIsGivenBack
  /\ RpmLockedP!DatabaseIsGivenBack => RpmOld!DatabaseIsGivenBack
BY DEF Rpm!TypeOK, RpmP!TypeOK, Rpm!DoneMeansDone, RpmP!DoneMeansDone,
       Rpm!LeftToNobody, RpmP!LeftToNobody, Rpm!RealRemoves, RpmP!RealRemoves,
       Rpm!Obsoleted, RpmP!Obsoleted, Rpm!Ousts, RpmP!Ousts,
       Rpm!ObsoletedAreLeftToRpm, RpmP!ObsoletedAreLeftToRpm, Rpm!StepsStayInTotal,
       RpmP!StepsStayInTotal, RpmOld!RunsWhatIsAsked, RpmOldP!RunsWhatIsAsked,
       RpmOld!DatabaseIsGivenBack, RpmP!DatabaseIsGivenBack, RpmOldP!DatabaseIsGivenBack,
       RpmLockedP!DatabaseIsGivenBack

LEMMA RpmParts ==
  [Next]_vars =>
    /\ part' = part
    /\ \/ part = "rpm" /\ Rpm!Next
       \/ part = "rpm before 4.1 locked" /\ RpmOld!Next
       \/ part = "rpm locked" /\ RpmLocked!Next
       \/ UNCHANGED rpmVars
BY DEF Next, vars, rpmVars

RpmsInv ==
  /\ part = "rpm before 4.1 locked" => RpmOldP!TransactInv
  /\ part = "rpm locked" => RpmLockedP!TransactInv
  /\ part \notin {"rpm before 4.1 locked", "rpm locked"} => RpmP!TransactInv

LEMMA RpmsBegin == Init => RpmsInv
<1> SUFFICES ASSUME Init PROVE RpmsInv
  OBVIOUS
<1>1. RpmP!Init /\ RpmOldP!Init /\ RpmLockedP!Init
  BY RpmsAgreeInit DEF Init
<1> QED
  BY <1>1, RpmsAgree, RpmP!TransactBegins, RpmOldP!TransactBegins, RpmLockedP!TransactBegins
     DEF RpmsInv

LEMMA RpmsKept == RpmsInv /\ [Next]_vars => RpmsInv'
<1> SUFFICES ASSUME RpmsInv, [Next]_vars PROVE RpmsInv'
  OBVIOUS
<1>0. /\ UNCHANGED rpmVars => /\ UNCHANGED RpmP!vars /\ UNCHANGED RpmOldP!vars
                              /\ UNCHANGED RpmLockedP!vars
  BY DEF rpmVars, RpmP!vars, RpmOldP!vars, RpmLockedP!vars
<1>1. CASE part = "rpm before 4.1 locked"
  <2>1. [RpmOldP!Next]_(RpmOldP!vars)
    BY <1>0, <1>1, RpmParts, RpmOldSteps
  <2>2. RpmOldP!TransactInv'
    BY <1>1, <2>1, RpmsAgree, RpmOldP!TransactKeeps DEF RpmsInv
  <2> QED
    BY <1>1, <2>2, RpmParts DEF RpmsInv
<1>2. CASE part = "rpm locked"
  <2>1. [RpmLockedP!Next]_(RpmLockedP!vars)
    BY <1>0, <1>2, RpmParts, RpmLockedSteps
  <2>2. RpmLockedP!TransactInv'
    BY <1>2, <2>1, RpmsAgree, RpmLockedP!TransactKeeps DEF RpmsInv
  <2> QED
    BY <1>2, <2>2, RpmParts DEF RpmsInv
<1>3. CASE part \notin {"rpm before 4.1 locked", "rpm locked"}
  <2>1. [RpmP!Next]_(RpmP!vars)
    BY <1>0, <1>3, RpmParts, RpmSteps
  <2>2. RpmP!TransactInv'
    BY <1>3, <2>1, RpmsAgree, RpmP!TransactKeeps DEF RpmsInv
  <2> QED
    BY <1>3, <2>2, RpmParts DEF RpmsInv
<1> QED
  BY <1>1, <1>2, <1>3

LEMMA RpmsGive == RpmsInv => RpmDoesWhatWasAsked
<1> SUFFICES ASSUME RpmsInv PROVE RpmDoesWhatWasAsked
  OBVIOUS
<1>1. CASE part = "rpm before 4.1 locked"
  <2>1. RpmOldP!RunsWhatIsAsked /\ RpmOldP!DatabaseIsGivenBack
    BY <1>1, RpmsAgree, RpmOldP!TransactGives DEF RpmsInv, RpmOldP!Fresh
  <2> QED
    BY <1>1, <2>1, RpmPromises DEF RpmDoesWhatWasAsked
<1>2. CASE part = "rpm locked"
  <2>1. RpmLockedP!DatabaseIsGivenBack
    BY <1>2, RpmsAgree, RpmLockedP!TransactGives DEF RpmsInv
  <2> QED
    BY <1>2, <2>1, RpmPromises DEF RpmDoesWhatWasAsked
<1>3. CASE part \notin {"rpm before 4.1 locked", "rpm locked"}
  <2>1. /\ RpmP!TypeOK /\ RpmP!DoneMeansDone /\ RpmP!ObsoletedAreLeftToRpm
        /\ RpmP!StepsStayInTotal /\ RpmP!DatabaseIsGivenBack
    BY <1>3, RpmsAgree, RpmP!TransactGives DEF RpmsInv, RpmP!Fresh
  <2> QED
    BY <1>3, <2>1, RpmPromises DEF RpmDoesWhatWasAsked
<1> QED
  BY <1>1, <1>2, <1>3

\* A transaction of rpm that is done has done what was asked for, in no more steps than it
\* has announced, and has left to rpm what other packages obsolete; under a lock of the
\* client rpm before 4.1 runs nothing else; and the database is given back
\* (rc_rpmman_transact).
THEOREM RpmAlwaysDoesWhatWasAsked == Spec => []RpmDoesWhatWasAsked
BY RpmsBegin, RpmsKept, RpmsGive, PTL DEF Spec

=============================================================================
