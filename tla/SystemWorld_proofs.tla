--------------------------- MODULE SystemWorld_proofs ---------------------------
(***************************************************************************)
(* What holds of system worlds and of the package database behind them,    *)
(* for all worlds, clients, failures and bounds: who has locked the        *)
(* database keeps it, one timer watches it, and changes are only lost in   *)
(* ways that have a name.                                                  *)
(***************************************************************************)
EXTENDS SystemWorld, SequenceTheorems, TLAPS

-----------------------------------------------------------------------------
(* Lists of worlds *)

Distinct(s) == \A i, j \in DOMAIN s : s[i] = s[j] => i = j

\* A world that is taken from a list in which it is once is in it no longer.
LEMMA Removed ==
  ASSUME NEW S, NEW s \in Seq(S), Distinct(s), NEW e
  PROVE  /\ RemoveFirst(s, e) \in Seq(S) /\ Distinct(RemoveFirst(s, e))
         /\ Range(RemoveFirst(s, e)) = Range(s) \ {e}
<1>1. DOMAIN s = 1..Len(s) /\ Len(s) \in Nat
  BY LenProperties
<1>2. CASE ~\E i \in 1..Len(s) : s[i] = e
  BY <1>1, <1>2 DEF RemoveFirst, Range
<1>3. CASE \E i \in 1..Len(s) : s[i] = e
  <2>1. PICK n \in 1..Len(s) : s[n] = e
    BY <1>3
  <2>2. {i \in 1..Len(s) : s[i] = e} = {n}
    BY <1>1, <2>1 DEF Distinct
  <2>3. Min({n}) = n
    BY DEF Min
  <2>4. SelectInSeq(s, LAMBDA v : v = e) = n
    BY <2>2, <2>3 DEF SelectInSeq
  <2> DEFINE r == SubSeq(s, 1, n - 1) \o SubSeq(s, n + 1, Len(s))
  <2>5. RemoveFirst(s, e) = r
    BY <1>3, <2>4 DEF RemoveFirst, RemoveAt
  <2>6. /\ r \in Seq(S) /\ Len(r) = Len(s) - 1
        /\ \A i \in 1..Len(r) : r[i] = IF i < n THEN s[i] ELSE s[i + 1]
    <3> DEFINE p == SubSeq(s, 1, n - 1)  q == SubSeq(s, n + 1, Len(s))
    <3>1. /\ p \in Seq(S) /\ Len(p) = n - 1
          /\ \A i \in 1..(n - 1) : p[i] = s[i]
      BY <1>1, SubSeqProperties
    <3>2. /\ q \in Seq(S) /\ Len(q) = Len(s) - n
          /\ \A i \in 1..(Len(s) - n) : q[i] = s[n + i]
      <4>1. \A i \in (n + 1)..Len(s) : s[i] \in S
        BY <1>1, <2>1, ElementOfSeq
      <4>2. /\ q \in Seq(S)
            /\ Len(q) = IF n + 1 <= Len(s) THEN Len(s) - (n + 1) + 1 ELSE 0
            /\ \A i \in 1..(Len(s) - (n + 1) + 1) : q[i] = s[(n + 1) + i - 1]
        BY <1>1, <2>1, <4>1, SubSeqProperties
      <4>3. /\ Len(s) - (n + 1) + 1 = Len(s) - n
            /\ \A i \in 1..(Len(s) - n) : (n + 1) + i - 1 = n + i
        BY <1>1, <2>1
      <4> HIDE DEF q
      <4>4. Len(q) = Len(s) - n
        <5>1. Len(q) = IF n + 1 <= Len(s) THEN Len(s) - (n + 1) + 1 ELSE 0
          BY <4>2
        <5>2. n \in Nat /\ Len(s) \in Nat /\ n <= Len(s)
          BY <1>1, <2>1
        <5> QED
          BY <5>1, <5>2
      <4>5. ASSUME NEW i \in 1..(Len(s) - n) PROVE q[i] = s[n + i]
        BY <4>2, <4>3
      <4> QED
        BY <4>2, <4>4, <4>5
    <3> HIDE DEF p, q
    <3>3. /\ p \o q \in Seq(S) /\ Len(p \o q) = Len(p) + Len(q)
          /\ \A i \in 1..(Len(p) + Len(q)) :
                (p \o q)[i] = IF i <= Len(p) THEN p[i] ELSE q[i - Len(p)]
      BY <3>1, <3>2, ConcatProperties
    <3>4. ASSUME NEW i \in 1..(Len(s) - 1)
          PROVE  (p \o q)[i] = IF i < n THEN s[i] ELSE s[i + 1]
      <4>1. CASE i < n
        BY <1>1, <3>1, <3>2, <3>3, <4>1
      <4>2. CASE i >= n
        <5>1. (p \o q)[i] = q[i - (n - 1)]
          BY <1>1, <3>1, <3>2, <3>3, <4>2
        <5>2. i - (n - 1) \in 1..(Len(s) - n) /\ n + (i - (n - 1)) = i + 1
          BY <1>1, <4>2
        <5> QED
          BY <3>2, <4>2, <5>1, <5>2
      <4>3. i < n \/ i >= n
        BY <1>1, <2>1
      <4> QED
        BY <4>1, <4>2, <4>3
    <3> QED
      <4>1. Len(p) + Len(q) = Len(s) - 1
        BY <1>1, <2>1, <3>1, <3>2
      <4> QED
        BY <3>3, <3>4, <4>1 DEF p, q
  <2>7. DOMAIN r = 1..Len(r)
    BY <2>6, LenProperties
  <2> HIDE DEF r
  <2>8. Distinct(r)
    <3> SUFFICES ASSUME NEW i \in 1..Len(r), NEW j \in 1..Len(r), r[i] = r[j] PROVE i = j
      BY <2>7 DEF Distinct
    <3> DEFINE at(k) == IF k < n THEN k ELSE k + 1
    <3>1. at(i) \in 1..Len(s) /\ at(j) \in 1..Len(s) /\ s[at(i)] = s[at(j)]
      BY <1>1, <2>6
    <3>2. at(i) = at(j)
      BY <1>1, <3>1 DEF Distinct
    <3> QED
      BY <1>1, <2>6, <3>2
  <2>9. Range(r) \subseteq Range(s) \ {e}
    <3> SUFFICES ASSUME NEW i \in 1..Len(r) PROVE r[i] \in Range(s) \ {e}
      BY <2>7 DEF Range
    <3> DEFINE j == IF i < n THEN i ELSE i + 1
    <3>1. j \in 1..Len(s) /\ j # n /\ r[i] = s[j]
      BY <1>1, <2>6
    <3>2. s[j] # s[n]
      BY <1>1, <3>1 DEF Distinct
    <3> QED
      BY <1>1, <2>1, <3>1, <3>2 DEF Range
  <2>10. ASSUME NEW i \in 1..Len(s), s[i] # e PROVE s[i] \in Range(r)
    <3>1. CASE i < n
      BY <1>1, <2>6, <2>7, <3>1 DEF Range
    <3>2. CASE i > n
      <4>1. i - 1 \in 1..Len(r) /\ r[i - 1] = s[i]
        BY <1>1, <2>6, <3>2
      <4> QED
        BY <2>7, <4>1 DEF Range
    <3> QED
      BY <2>1, <2>10, <3>1, <3>2
  <2>11. Range(s) \ {e} \subseteq Range(r)
    BY <1>1, <2>10 DEF Range
  <2> QED
    BY <2>5, <2>6, <2>8, <2>9, <2>11
<1> QED
  BY <1>2, <1>3

LEMMA Appended ==
  ASSUME NEW S, NEW s \in Seq(S), Distinct(s), NEW e \in S, e \notin Range(s)
  PROVE  /\ Append(s, e) \in Seq(S) /\ Distinct(Append(s, e))
         /\ Range(Append(s, e)) = Range(s) \cup {e}
<1>1. DOMAIN s = 1..Len(s) /\ Len(s) \in Nat
  BY LenProperties
<1> DEFINE r == Append(s, e)
<1>2. /\ r \in Seq(S) /\ Len(r) = Len(s) + 1
      /\ \A i \in 1..Len(s) : r[i] = s[i]
      /\ r[Len(s) + 1] = e
  BY <1>1
<1>3. DOMAIN r = 1..(Len(s) + 1)
  BY <1>2, LenProperties
<1> HIDE DEF r
<1>4. Distinct(r)
  BY <1>1, <1>2, <1>3 DEF Distinct, Range
<1>5. Range(r) = Range(s) \cup {e}
  BY <1>1, <1>2, <1>3 DEF Range
<1> QED
  BY <1>2, <1>4, <1>5 DEF r

LEMMA HeadAndTail ==
  ASSUME NEW S, NEW s \in Seq(S), s # <<>>
  PROVE  /\ Head(s) \in S /\ Tail(s) \in Seq(S)
         /\ Range(s) = {Head(s)} \cup Range(Tail(s))
<1>1. /\ Head(s) \in S /\ Tail(s) \in Seq(S) /\ Len(Tail(s)) = Len(s) - 1
      /\ \A i \in 1..Len(Tail(s)) : Tail(s)[i] = s[i + 1]
  BY HeadTailProperties
<1>2. Len(s) \in Nat \ {0} /\ Head(s) = s[1]
  BY EmptySeq, LenProperties
<1>3. /\ Range(s) = {s[i] : i \in 1..Len(s)}
      /\ Range(Tail(s)) = {Tail(s)[i] : i \in 1..Len(Tail(s))}
  BY <1>1, RangeEquality
<1> DEFINE t == Tail(s)  h == Head(s)
<1> HIDE DEF t, h
<1>4. ASSUME NEW i \in 1..Len(s), i # 1 PROVE s[i] \in Range(t)
  <2>1. i - 1 \in 1..Len(t) /\ t[i - 1] = s[i]
    BY <1>1, <1>2, <1>4 DEF t
  <2> QED
    BY <1>3, <2>1 DEF t
<1>5. ASSUME NEW i \in 1..Len(t) PROVE t[i] \in Range(s)
  BY <1>1, <1>2, <1>3, <1>5 DEF t
<1>6. Range(s) = {h} \cup Range(t)
  BY <1>2, <1>3, <1>4, <1>5 DEF t, h
<1> QED
  BY <1>1, <1>6 DEF t, h

LEMMA One ==
  ASSUME NEW S, NEW e \in S
  PROVE  /\ <<e>> \in Seq(S) /\ <<e>> # <<>> /\ Range(<<e>>) = {e} /\ Distinct(<<e>>)
<1>1. DOMAIN <<e>> = {1} /\ <<e>>[1] = e
  OBVIOUS
<1> QED
  BY <1>1 DEF Range, Distinct

-----------------------------------------------------------------------------
(* What the thread does *)

\* A job that is begun has a list of worlds; the database is open for it if and only if
\* the job is to close it.
Fit(j) ==
  /\ j \in Job
  /\ j.kind = "idle" => j = Idle
  /\ j.kind # "idle" => j.todo # <<>>
  /\ j.kind \in {"idle", "load"} => ~j.opened
  /\ j.kind = "close" => j.opened

LEMMA JobIs ==
  ASSUME NEW j \in Job
  PROVE  /\ j.kind \in {"idle", "load", "read", "close", "transact"}
         /\ j.todo \in Seq(World) /\ j.opened \in BOOLEAN /\ j.making \in BOOLEAN
BY DEF Job

LEMMA IdleIs ==
  /\ Fit(Idle) /\ Idle.kind = "idle" /\ Idle.opened = FALSE /\ Idle.todo = <<>>
BY DEF Idle, Fit, Job

LEMMA LoadIs ==
  ASSUME NEW worlds \in Seq(World), worlds # <<>>
  PROVE  /\ Fit(Load(worlds)) /\ Load(worlds).kind = "load" /\ Load(worlds).todo = worlds
         /\ Load(worlds).opened = FALSE
BY DEF Load, Idle, Fit, Job

LEMMA MakingIs ==
  ASSUME NEW worlds \in Seq(World), worlds # <<>>, NEW j,
         j = [Load(worlds) EXCEPT !.making = TRUE]
  PROVE  Fit(j) /\ j.kind = "load" /\ j.todo = worlds /\ j.opened = FALSE
BY DEF Load, Idle, Fit, Job

LEMMA GoOnIs ==
  ASSUME NEW worlds \in Seq(World)
  PROVE  /\ Fit(GoOn(worlds)) /\ GoOn(worlds).kind \in {"idle", "load"}
         /\ GoOn(worlds).opened = FALSE /\ GoOn(worlds).todo = worlds
         /\ worlds # <<>> => GoOn(worlds).kind = "load"
BY IdleIs, LoadIs DEF GoOn

LEMMA ReadIs ==
  ASSUME NEW j, Fit(j), j.kind = "load", NEW k,
         \/ k = [j EXCEPT !.kind = "read"]
         \/ k = [j EXCEPT !.kind = "read", !.opened = TRUE]
  PROVE  /\ Fit(k) /\ k.kind = "read" /\ k.todo = j.todo
         /\ k = [j EXCEPT !.kind = "read"] => k.opened = FALSE
         /\ k = [j EXCEPT !.kind = "read", !.opened = TRUE] => k.opened = TRUE
BY DEF Fit, Job

LEMMA CloseIs ==
  ASSUME NEW j, Fit(j), j.kind = "read", j.opened, NEW ok \in BOOLEAN, NEW k,
         k = [j EXCEPT !.kind = "close", !.making = @ /\ ~ok]
  PROVE  Fit(k) /\ k.kind = "close" /\ k.todo = j.todo /\ k.opened = TRUE
BY DEF Fit, Job

LEMMA TransactIs ==
  ASSUME NEW w \in World, NEW k,
         \/ k = [Idle EXCEPT !.kind = "transact", !.todo = <<w>>]
         \/ k = [Idle EXCEPT !.kind = "transact", !.todo = <<w>>, !.opened = TRUE]
  PROVE  /\ Fit(k) /\ k.kind = "transact" /\ k.todo = <<w>>
         /\ k = [Idle EXCEPT !.kind = "transact", !.todo = <<w>>] => k.opened = FALSE
         /\ k = [Idle EXCEPT !.kind = "transact", !.todo = <<w>>, !.opened = TRUE]
              => k.opened = TRUE
<1> DEFINE s == <<w>>
<1>1. s \in Seq(World) /\ s # <<>>
  BY One
<1> HIDE DEF s
<1>2. \/ k = [kind |-> "transact", todo |-> s, opened |-> FALSE, making |-> FALSE]
      \/ k = [kind |-> "transact", todo |-> s, opened |-> TRUE, making |-> FALSE]
  BY DEF Idle, s
<1> DEFINE J(o) == [kind |-> "transact", todo |-> s, opened |-> o, making |-> FALSE]
<1>3. ASSUME NEW o \in BOOLEAN PROVE J(o) \in Job /\ J(o).kind = "transact" /\ J(o).todo = s
  BY <1>1 DEF Job
<1>4. k.kind = "transact" /\ k.todo = s /\ Fit(k)
  <2>1. PICK o \in BOOLEAN : k = J(o)
    BY <1>2
  <2>2. k \in Job /\ k.kind = "transact" /\ k.todo = s
    BY <1>3, <2>1
  <2> QED
    BY <1>1, <2>2 DEF Fit
<1>5. /\ k = [Idle EXCEPT !.kind = "transact", !.todo = s] => k.opened = FALSE
      /\ k = [Idle EXCEPT !.kind = "transact", !.todo = s, !.opened = TRUE]
           => k.opened = TRUE
  BY DEF Idle
<1> QED
  BY <1>4, <1>5 DEF s


\* What StateInv says of the job.
LEMMA JobHas ==
  ASSUME Fit(job)
  PROVE  /\ job \in Job /\ job.opened \in BOOLEAN /\ job.todo \in Seq(World)
         /\ job.kind # "idle" =>
              /\ Head(job.todo) \in World /\ Tail(job.todo) \in Seq(World)
              /\ Range(job.todo) = {Head(job.todo)} \cup Range(Tail(job.todo))
<1>1. job \in Job /\ job.opened \in BOOLEAN /\ job.todo \in Seq(World)
  BY JobIs DEF Fit
<1> QED
  BY <1>1, HeadAndTail DEF Fit

\* How each action leaves the job.
LEMMA FitAfterOpening ==
  ASSUME Fit(job), LoadOpen
  PROVE  /\ job.kind = "load"
         /\ \/ /\ status # "none" /\ UNCHANGED <<handle, missed, alive>>
               /\ Fit(job') /\ job'.kind = "read" /\ job'.todo = job.todo /\ ~job'.opened
            \/ /\ status = "none" /\ Opens("rdonly", Range(job.todo)) /\ UNCHANGED alive
               /\ Fit(job') /\ job'.kind = "read" /\ job'.todo = job.todo /\ job'.opened
            \/ /\ status = "none" /\ OpenFails
               /\ alive' = alive \/ alive' = RemoveFirst(alive, Head(job.todo))
               /\ Fit(job') /\ job'.kind \in {"idle", "load"} /\ job'.todo = Tail(job.todo)
<1>1. job.kind = "load"
  BY DEF LoadOpen
<1>2. CASE /\ status # "none" /\ job' = [job EXCEPT !.kind = "read"]
           /\ UNCHANGED <<handle, missed, alive>>
  BY <1>1, <1>2, ReadIs
<1>3. CASE /\ status = "none" /\ Opens("rdonly", Range(job.todo)) /\ UNCHANGED alive
           /\ job' = [job EXCEPT !.kind = "read", !.opened = TRUE]
  BY <1>1, <1>3, ReadIs
<1>4. CASE status = "none" /\ OpenFails /\ Unloaded(Head(job.todo))
  BY <1>1, <1>4, JobHas, GoOnIs DEF Unloaded
<1> QED
  BY <1>1, <1>2, <1>3, <1>4 DEF LoadOpen

LEMMA FitAfterReading ==
  ASSUME Fit(job), LoadRead \/ LoadFails
  PROVE  /\ job.kind = "read"
         /\ alive' = alive \/ alive' = RemoveFirst(alive, Head(job.todo))
         /\ \/ /\ job.opened /\ Fit(job') /\ job'.kind = "close" /\ job'.todo = job.todo
               /\ job'.opened = TRUE
            \/ /\ ~job.opened /\ Fit(job') /\ job'.kind \in {"idle", "load"}
               /\ job'.todo = Tail(job.todo)
<1>1. job.kind = "read" /\ \E ok \in BOOLEAN : Leave(ok)
  BY DEF LoadRead, LoadFails
<1>2. PICK ok \in BOOLEAN : Leave(ok)
  BY <1>1
<1>3. CASE job.opened
  BY <1>1, <1>2, <1>3, CloseIs DEF Leave
<1>4. CASE ~job.opened
  BY <1>1, <1>2, <1>4, JobHas, GoOnIs DEF Leave, Unloaded
<1> QED
  BY <1>1, <1>3, <1>4

LEMMA FitAfterClosing ==
  ASSUME Fit(job), LoadClose
  PROVE  /\ job.kind = "close" /\ job.opened
         /\ alive' = alive \/ alive' = RemoveFirst(alive, Head(job.todo))
         /\ Fit(job') /\ job'.kind \in {"idle", "load"} /\ job'.todo = Tail(job.todo)
BY JobHas, GoOnIs DEF LoadClose, Unloaded, Fit

LEMMA FitAfterChecking ==
  ASSUME Fit(job), NEW worlds \in Seq(World), job = Idle, Check(worlds)
  PROVE  /\ Fit(job') /\ job'.kind \in {"idle", "load"}
         /\ Changed => job'.todo = worlds
         /\ Changed /\ worlds # <<>> => job'.kind = "load"
         /\ ~Changed => job' = job
BY IdleIs, GoOnIs DEF Check


LEMMA FitAfterStarting ==
  ASSUME Fit(job), NEW w \in World, Refresh(w) \/ New(w) \/ Duplicate(w)
  PROVE  /\ job = Idle
         /\ Fit(job') /\ job'.kind = "load" /\ job'.todo = <<w>> /\ job'.opened = FALSE
<1> DEFINE s == <<w>>
<1>1. s \in Seq(World) /\ s # <<>>
  BY One
<1>2. /\ job = Idle
      /\ job' = Load(s) \/ job' = [Load(s) EXCEPT !.making = TRUE]
  BY DEF Refresh, New, Duplicate
<1> HIDE DEF s
<1>3. Fit(job') /\ job'.kind = "load" /\ job'.todo = s /\ job'.opened = FALSE
  <2>1. CASE job' = Load(s)
    BY <1>1, <2>1, LoadIs
  <2>2. CASE job' = [Load(s) EXCEPT !.making = TRUE]
    BY <1>1, <2>2, MakingIs
  <2> QED
    BY <1>2, <2>1, <2>2
<1> QED
  BY <1>2, <1>3 DEF s

LEMMA FitAfterBeginning ==
  ASSUME Fit(job), NEW w \in World, TransactBegin(w)
  PROVE  /\ job = Idle
         /\ \/ /\ status = "rdwr" /\ UNCHANGED <<handle, missed>>
               /\ Fit(job') /\ job'.kind = "transact" /\ job'.todo = <<w>> /\ ~job'.opened
            \/ /\ status = "none" /\ Opens("rdwr", {})
               /\ Fit(job') /\ job'.kind = "transact" /\ job'.todo = <<w>> /\ job'.opened
            \/ /\ status = "none" /\ OpenFails /\ job' = job
<1>1. CASE status = "rdwr" /\ job' = [Idle EXCEPT !.kind = "transact", !.todo = <<w>>]
  BY <1>1, TransactIs DEF TransactBegin
<1>2. CASE /\ status = "none" /\ Opens("rdwr", {})
           /\ job' = [Idle EXCEPT !.kind = "transact", !.todo = <<w>>, !.opened = TRUE]
  BY <1>2, TransactIs DEF TransactBegin
<1>3. CASE status = "none" /\ OpenFails /\ job' = job
  BY <1>3 DEF TransactBegin
<1> QED
  BY <1>1, <1>2, <1>3 DEF TransactBegin

LEMMA FitAfterTransacting ==
  ASSUME Fit(job), TransactFails \/ TransactDone
  PROVE  /\ job.kind = "transact"
         /\ Fit(job') /\ job'.kind \in {"idle", "load"} /\ job'.opened = FALSE
         /\ TransactDone => job'.kind = "load" /\ job'.todo = job.todo
<1>1. CASE ~TransactDone
  BY <1>1, IdleIs DEF TransactFails
<1>2. CASE TransactDone
  <2>1. job.kind = "transact" /\ job.todo \in Seq(World) /\ job.todo # <<>>
    BY <1>2, JobHas DEF TransactDone, Fit
  <2> QED
    BY <1>2, <2>1, LoadIs DEF TransactDone
<1> QED
  BY <1>1, <1>2


-----------------------------------------------------------------------------
(* The handle of the database *)

\* The database is open if and only if a client has locked it or the thread has opened it
\* for what it does, and then it will close it.
HandleInv ==
  /\ lockCount \in Nat
  /\ status # "none" <=> lockCount > 0 \/ job.opened
  /\ lockCount > 0 => status = "rdwr" /\ ~job.opened
  /\ watchers = IF status = "none" THEN 1 ELSE 0

LEMMA HandleInvGives == HandleInv => WatchedByOne /\ LockIsHeld
BY DEF HandleInv, WatchedByOne, LockIsHeld

LEMMA HandleInvBegins == Init => HandleInv
BY IdleIs DEF Init, HandleInv

LEMMA HandleInvKept ==
  ASSUME HandleInv, Fit(job), alive \in Seq(World), [Next]_vars
  PROVE  HandleInv'
<1> USE DEF HandleInv, handle
<1>1. job.opened \in BOOLEAN /\ (job.kind \in {"idle", "load"} => ~job.opened)
  BY JobHas DEF Fit
<1>2. CASE UNCHANGED <<handle, lockCount, job>>
  BY <1>2
<1>3. CASE LoadOpen
  <2>1. UNCHANGED lockCount
    BY <1>3 DEF LoadOpen
  <2> QED
    BY <1>1, <1>3, <2>1, FitAfterOpening DEF Opens, OpenFails, Fit
<1>4. CASE LoadRead \/ LoadFails
  <2>1. UNCHANGED <<handle, lockCount>>
    BY <1>4 DEF LoadRead, LoadFails
  <2>2. job'.opened = job.opened
    BY <1>4, FitAfterReading, JobIs DEF Fit
  <2> QED
    BY <2>1, <2>2
<1>5. CASE LoadClose
  <2>1. UNCHANGED lockCount /\ Closes(Range(Tail(job.todo)))
    BY <1>5 DEF LoadClose
  <2> QED
    BY <1>5, <2>1, FitAfterClosing DEF Closes, Fit
<1>6. ASSUME NEW worlds \in Seq(World), job = Idle, Check(worlds), UNCHANGED lockCount
      PROVE  HandleInv'
  BY <1>1, <1>6, FitAfterChecking, IdleIs DEF Check, Fit
<1>7. ASSUME NEW w \in World, Refresh(w) \/ New(w) \/ Duplicate(w)
      PROVE  HandleInv'
  <2>1. UNCHANGED <<handle, lockCount>>
    BY <1>7 DEF Refresh, New, Duplicate
  <2> QED
    BY <1>7, <2>1, FitAfterStarting, IdleIs
<1>8. ASSUME NEW w \in World, TransactBegin(w)
      PROVE  HandleInv'
  <2>1. UNCHANGED lockCount
    BY <1>8 DEF TransactBegin
  <2> QED
    BY <1>8, <2>1, FitAfterBeginning, IdleIs DEF Opens, OpenFails
<1>9. CASE \E v \in World : NestedSync(v) \/ Finalize(v)
  BY <1>9 DEF NestedSync, Finalize
<1>10. CASE TransactFails \/ TransactDone
  <2>1. UNCHANGED lockCount /\ (LeaveTransact({}) \/ LeaveTransact(Range(job.todo)))
    BY <1>10 DEF TransactFails, TransactDone
  <2>2. \/ job.opened /\ status' = "none" /\ watchers' = watchers + 1
        \/ ~job.opened /\ UNCHANGED handle
    BY <2>1 DEF LeaveTransact, Closes
  <2>3. job'.opened = FALSE
    BY <1>10, FitAfterTransacting
  <2> QED
    BY <1>1, <2>1, <2>2, <2>3
<1>11. CASE Lock
  BY <1>1, <1>11, IdleIs DEF Lock, Opens, OpenFails
<1>12. CASE Unlock
  BY <1>1, <1>12, IdleIs DEF Unlock, Closes
<1>13. CASE Query
  BY <1>13 DEF Query, OpenFails
<1>14. CASE TransactStep \/ Others
  BY <1>14 DEF TransactStep, Others, Tick, OtherChanges, OtherLocks, OtherUnlocks,
               YastStarts, YastEnds
<1>15. CASE Watch
  BY <1>6, <1>15 DEF Watch
<1>16. ASSUME NEW w \in World, Sync(w) PROVE HandleInv'
  BY <1>6, <1>16, One DEF Sync
<1> QED
  BY <1>2, <1>3, <1>4, <1>5, <1>7, <1>8, <1>9, <1>10, <1>11, <1>12, <1>13, <1>14, <1>15,
     <1>16 DEF Next, Loading, Transacting, Clienting, vars


-----------------------------------------------------------------------------
(* Types *)

\* A world is connected once, and what the thread does fits together.
StateInv == TypeOK /\ Distinct(alive) /\ Fit(job)

LEMMA StateInvBegins == SystemAssumption /\ Init => StateInv
<1> SUFFICES ASSUME SystemAssumption, Init PROVE StateInv
  OBVIOUS
<1>1. job = Idle /\ Fit(job) /\ alive = <<>>
  BY IdleIs DEF Init
<1>2. alive \in Seq(World) /\ Distinct(alive)
  BY <1>1 DEF Distinct
<1>3. job \in Job
  BY <1>1, JobHas
<1>4. loaded \in [World -> 0..MaxChange \cup {NONE}]
  BY DEF Init
<1>5. /\ db \in 0..MaxChange /\ mtime \in 1..MaxTime /\ clock \in 1..MaxTime
      /\ noted \in 0..MaxTime /\ watchers \in Nat /\ lockCount \in 0..MaxLock
  BY DEF SystemAssumption, Init
<1> QED
  BY <1>1, <1>2, <1>3, <1>4, <1>5 DEF StateInv, TypeOK, Init

LEMMA Lists ==
  ASSUME StateInv
  PROVE  /\ alive \in Seq(World) /\ Distinct(alive) /\ Fit(job)
         /\ Range(alive) \subseteq World /\ Range(job.todo) \subseteq World
         /\ Stale \subseteq World
<1>1. alive \in Seq(World) /\ Distinct(alive) /\ Fit(job) /\ job.todo \in Seq(World)
  BY JobHas DEF StateInv, TypeOK
<1> QED
  BY <1>1, RangeOfSeq DEF Stale

\* Only jobs that do not fail leave their worlds connected.
LEMMA AliveKept ==
  ASSUME StateInv, [Next]_vars
  PROVE  alive' \in Seq(World) /\ Distinct(alive')
<1> USE Lists
<1>1. CASE UNCHANGED alive
  BY <1>1
<1>2. CASE \E w : alive' = RemoveFirst(alive, w)
  BY <1>2, Removed
<1>3. ASSUME NEW w \in World, alive' = <<w>> PROVE alive' \in Seq(World) /\ Distinct(alive')
  BY <1>3, One
<1>4. ASSUME NEW w \in World, Duplicate(w) PROVE alive' \in Seq(World) /\ Distinct(alive')
  BY <1>4, Appended DEF Duplicate
<1>5. CASE Loading
  BY <1>1, <1>2, <1>5, FitAfterOpening, FitAfterReading, FitAfterClosing DEF Loading
<1>6. CASE Transacting \/ Watch \/ Lock \/ Unlock \/ Query \/ Others
  BY <1>1, <1>6 DEF Transacting, TransactStep, TransactFails, TransactDone, NestedSync, Watch,
                   Lock, Unlock, Query, Others, Tick, OtherChanges, OtherLocks, OtherUnlocks,
                   YastStarts, YastEnds
<1>7. CASE \E w \in World : Sync(w) \/ Refresh(w) \/ TransactBegin(w)
  BY <1>1, <1>7 DEF Sync, Refresh, TransactBegin
<1>8. CASE \E w \in World : New(w) \/ Finalize(w)
  BY <1>2, <1>3, <1>8 DEF New, Finalize
<1> QED
  BY <1>1, <1>4, <1>5, <1>6, <1>7, <1>8 DEF Next, Clienting, vars

LEMMA FitKept ==
  ASSUME StateInv, [Next]_vars
  PROVE  Fit(job')
<1> USE Lists
<1>1. CASE UNCHANGED job
  BY <1>1
<1>2. CASE Loading
  BY <1>2, FitAfterOpening, FitAfterReading, FitAfterClosing DEF Loading
<1>3. CASE Watch
  BY <1>3, FitAfterChecking DEF Watch
<1>4. ASSUME NEW w \in World, Sync(w) PROVE Fit(job')
  BY <1>4, FitAfterChecking, One DEF Sync
<1>5. ASSUME NEW w \in World, Refresh(w) \/ New(w) \/ Duplicate(w) PROVE Fit(job')
  BY <1>5, FitAfterStarting
<1>6. ASSUME NEW w \in World, TransactBegin(w) PROVE Fit(job')
  BY <1>6, FitAfterBeginning
<1>7. CASE TransactFails \/ TransactDone
  BY <1>7, FitAfterTransacting
<1>8. CASE TransactStep \/ Lock \/ Unlock \/ Query \/ Others
  BY <1>1, <1>8 DEF TransactStep, Lock, Unlock, Query, Others, Tick, OtherChanges,
                    OtherLocks, OtherUnlocks, YastStarts, YastEnds
<1>9. CASE \E w \in World : Finalize(w) \/ NestedSync(w)
  BY <1>1, <1>9 DEF Finalize, NestedSync
<1> QED
  BY <1>1, <1>2, <1>3, <1>4, <1>5, <1>6, <1>7, <1>8, <1>9
     DEF Next, Transacting, Clienting, vars


LEMMA TypesKept ==
  ASSUME SystemAssumption, StateInv, HandleInv, [Next]_vars
  PROVE  TypeOK'
<1> USE Lists
<1>1. job' \in Job /\ alive' \in Seq(World) /\ watchers' \in Nat
  <2>1. HandleInv'
    BY HandleInvKept
  <2> QED
    BY <2>1, AliveKept, FitKept DEF Fit, HandleInv
<1>2. job.kind # "idle" => Head(job.todo) \in World
  BY JobHas
<1>3. /\ db' \in 0..MaxChange /\ mtime' \in 1..MaxTime /\ clock' \in 1..MaxTime
      /\ yast' \in BOOLEAN /\ busy' \in BOOLEAN
  <2>1. /\ db \in 0..MaxChange /\ mtime \in 1..MaxTime /\ clock \in 1..MaxTime
        /\ yast \in BOOLEAN /\ busy \in BOOLEAN
        /\ MaxChange \in Nat /\ MaxTime \in Nat
    BY DEF StateInv, TypeOK, SystemAssumption
  <2>2. CASE UNCHANGED outside
    BY <2>1, <2>2 DEF outside
  <2>3. CASE TransactStep \/ OtherChanges
    BY <2>1, <2>3 DEF TransactStep, OtherChanges
  <2>4. CASE Tick \/ OtherLocks \/ OtherUnlocks \/ YastStarts \/ YastEnds
    <3>1. yast' \in BOOLEAN /\ busy' \in BOOLEAN
      BY <2>1, <2>4, Zenon DEF Tick, OtherLocks, OtherUnlocks, YastStarts, YastEnds
    <3>2. /\ db' = db /\ mtime' = mtime
          /\ clock' = clock \/ (clock < MaxTime /\ clock' = clock + 1)
      BY <2>4, Zenon DEF Tick, OtherLocks, OtherUnlocks, YastStarts, YastEnds
    <3> QED
      BY <2>1, <3>1, <3>2
  <2>5. CASE Loading \/ Watch \/ Clienting \/ TransactFails \/ TransactDone
             \/ \E v \in World : NestedSync(v)
    BY <2>2, <2>5 DEF Loading, LoadOpen, LoadRead, LoadFails, LoadClose, Watch, Clienting, Sync,
       Refresh, New, Duplicate, Finalize, TransactBegin, Lock, Unlock, Query, TransactFails,
       TransactDone, NestedSync
  <2> QED
    BY <2>2, <2>3, <2>4, <2>5 DEF Next, Transacting, Others, vars
<1>4. status' \in {"none", "rdonly", "rdwr"} /\ clean' \in BOOLEAN /\ noted' \in 0..MaxTime
  <2>1. /\ status \in {"none", "rdonly", "rdwr"} /\ clean \in BOOLEAN /\ noted \in 0..MaxTime
        /\ Noted \in 0..MaxTime /\ mtime \in 0..MaxTime
    BY DEF StateInv, TypeOK, Noted, SystemAssumption
  <2>2. CASE UNCHANGED <<status, clean, noted>>
    BY <2>1, <2>2
  <2>3. CASE OpenFails \/ \E kept : Closes(kept)
    BY <2>1, <2>3 DEF OpenFails, Closes
  <2>4. ASSUME NEW how \in {"rdonly", "rdwr"}, NEW kept, Opens(how, kept)
        PROVE  status' \in {"none", "rdonly", "rdwr"} /\ clean' \in BOOLEAN /\ noted' \in 0..MaxTime
    BY <2>1, <2>4 DEF Opens
  <2>5. CASE \E worlds : Check(worlds)
    BY <2>1, <2>5 DEF Check
  <2>6. CASE (\E v \in World : NestedSync(v)) \/ Query
    BY <2>1, <2>3, <2>6 DEF NestedSync, Query
  <2>7. CASE Loading
    BY <2>2, <2>3, <2>4, <2>7 DEF Loading, LoadOpen, LoadRead, LoadFails, LoadClose, handle
  <2>8. CASE \E w \in World : Refresh(w) \/ New(w) \/ Duplicate(w) \/ Finalize(w)
    BY <2>2, <2>8 DEF Refresh, New, Duplicate, Finalize, handle
  <2>9. CASE Watch \/ \E w \in World : Sync(w)
    BY <2>5, <2>9 DEF Watch, Sync
  <2>10. CASE Lock \/ Unlock \/ \E w \in World : TransactBegin(w)
    BY <2>2, <2>3, <2>4, <2>10 DEF Lock, Unlock, TransactBegin, handle
  <2>11. CASE TransactFails \/ TransactDone
    BY <2>2, <2>3, <2>11 DEF TransactFails, TransactDone, LeaveTransact, handle
  <2>12. CASE TransactStep \/ Others
    BY <2>2, <2>12 DEF TransactStep, Others, Tick, OtherChanges, OtherLocks, OtherUnlocks,
       YastStarts, YastEnds, handle
  <2> QED
    BY <2>2, <2>6, <2>7, <2>8, <2>9, <2>10, <2>11, <2>12
       DEF Next, Transacting, Clienting, vars, handle
<1>5. lockCount' \in 0..MaxLock
  <2>1. lockCount \in 0..MaxLock /\ MaxLock \in Nat
    BY DEF StateInv, TypeOK, SystemAssumption
  <2>2. CASE Lock \/ Unlock
    BY <2>1, <2>2 DEF Lock, Unlock
  <2>3. CASE UNCHANGED lockCount
    BY <2>1, <2>3
  <2> QED
    BY <2>2, <2>3 DEF Next, vars, Loading, LoadOpen, LoadRead, LoadFails, LoadClose, Transacting,
       TransactStep, TransactFails, TransactDone, NestedSync, Watch, Clienting, Sync, Refresh,
       New, Duplicate, Finalize, TransactBegin, Query, Others, Tick, OtherChanges, OtherLocks,
       OtherUnlocks, YastStarts, YastEnds
<1>6. loaded' \in [World -> 0..MaxChange \cup {NONE}]
  <2>1. loaded \in [World -> 0..MaxChange \cup {NONE}] /\ db \in 0..MaxChange
    BY DEF StateInv, TypeOK
  <2>2. CASE UNCHANGED loaded
    BY <2>1, <2>2
  <2>3. CASE \E w \in World : loaded' = [loaded EXCEPT ![w] = NONE]
                              \/ loaded' = [loaded EXCEPT ![w] = db]
    BY <2>1, <2>3
  <2>4. CASE LoadOpen \/ LoadRead
    <3>1. Head(job.todo) \in World
      BY <1>2, <2>4 DEF LoadOpen, LoadRead
    <3> QED
      BY <2>3, <2>4, <3>1 DEF LoadOpen, LoadRead
  <2>5. CASE \E w \in World : Finalize(w) \/ NestedSync(w)
    BY <2>3, <2>5 DEF Finalize, NestedSync
  <2>6. CASE LoadFails \/ LoadClose \/ TransactStep \/ TransactFails \/ TransactDone \/ Watch
             \/ Lock \/ Unlock \/ Query \/ Others
    BY <2>2, <2>6 DEF LoadFails, LoadClose, TransactStep, TransactFails, TransactDone, Watch,
       Lock, Unlock, Query, Others, Tick, OtherChanges, OtherLocks, OtherUnlocks, YastStarts,
       YastEnds
  <2>7. CASE \E w \in World : Sync(w) \/ Refresh(w) \/ New(w) \/ Duplicate(w) \/ TransactBegin(w)
    BY <2>2, <2>7 DEF Sync, Refresh, New, Duplicate, TransactBegin
  <2> QED
    BY <2>2, <2>4, <2>5, <2>6, <2>7 DEF Next, vars, Loading, Transacting, Clienting
<1>7. missed' \subseteq World
  <2>1. missed \subseteq World /\ Stale \subseteq World /\ Range(alive) \subseteq World
        /\ \A kept : Overlooked(kept) \subseteq World
    BY Lists DEF StateInv, TypeOK, Overlooked
  <2>2. CASE missed' \subseteq missed \/ OpenFails \/ \E kept : Closes(kept)
    BY <2>1, <2>2 DEF OpenFails, Closes
  <2>3. CASE (\E how, kept : Opens(how, kept)) \/ \E worlds : Check(worlds)
    BY <2>1, <2>3 DEF Opens, Check
  <2>4. CASE LoadFails
    <3>1. Head(job.todo) \in World
      BY <1>2, <2>4 DEF LoadFails
    <3> QED
      BY <2>1, <2>4, <3>1 DEF LoadFails
  <2>5. CASE TransactStep \/ OtherChanges \/ Query \/ \E v \in World : NestedSync(v)
    BY <2>1, <2>2, <2>5 DEF TransactStep, OtherChanges, Query, NestedSync
  <2>6. CASE LoadOpen \/ LoadRead \/ LoadClose
    BY <2>2, <2>3, <2>6 DEF LoadOpen, LoadRead, LoadClose
  <2>7. CASE \E w \in World : Refresh(w) \/ New(w) \/ Duplicate(w) \/ Finalize(w)
    BY <2>2, <2>7 DEF Refresh, New, Duplicate, Finalize
  <2>8. CASE Watch \/ \E w \in World : Sync(w)
    BY <2>3, <2>8 DEF Watch, Sync
  <2>9. CASE Lock \/ Unlock \/ \E w \in World : TransactBegin(w)
    BY <2>2, <2>3, <2>9 DEF Lock, Unlock, TransactBegin
  <2>10. CASE TransactFails \/ TransactDone
    BY <2>2, <2>10 DEF TransactFails, TransactDone, LeaveTransact
  <2>11. CASE Tick \/ OtherLocks \/ OtherUnlocks \/ YastStarts \/ YastEnds
    BY <2>2, <2>11 DEF Tick, OtherLocks, OtherUnlocks, YastStarts, YastEnds
  <2> QED
    BY <2>2, <2>4, <2>5, <2>6, <2>7, <2>8, <2>9, <2>10, <2>11
       DEF Next, vars, Loading, Transacting, Clienting, Others
<1> QED
  BY <1>1, <1>3, <1>4, <1>5, <1>6, <1>7 DEF TypeOK


LEMMA StateInvKept ==
  ASSUME SystemAssumption, StateInv, HandleInv, [Next]_vars
  PROVE  StateInv'
BY AliveKept, FitKept, TypesKept DEF StateInv

-----------------------------------------------------------------------------
(* Changes *)

\* The worlds that the thread is still to load.
Coming ==
  CASE job.kind \in {"load", "read"} -> Range(job.todo)
    [] job.kind = "close" -> Range(Tail(job.todo))
    [] OTHER -> {}

\* A world that differs from the database will be loaded, or the next check finds the
\* change, or it has gone by.
LossInv == \A w \in Stale : WillNotice \/ w \in missed \/ w \in Coming

LEMMA LossInvGives == LossInv => LossesAreExplained
BY IdleIs DEF LossInv, LossesAreExplained, Coming

LEMMA LossInvBegins == Init => LossInv
BY DEF Init, LossInv, Stale, Range

\* What a step does to the worlds that are to be loaded.
LEMMA ComingIs ==
  /\ job.kind \in {"load", "read"} => Coming = Range(job.todo)
  /\ job.kind = "close" => Coming = Range(Tail(job.todo))
  /\ job.kind \in {"idle", "transact"} => Coming = {}
BY DEF Coming

LEMMA ComingThen ==
  /\ job'.kind \in {"load", "read"} => Coming' = Range(job'.todo)
  /\ job'.kind = "close" => Coming' = Range(Tail(job'.todo))
  /\ job'.kind \in {"idle", "transact"} => Coming' = {}
BY DEF Coming

\* As long as the database is the same, the time that is noted is passed over for those
\* worlds only that are still to be loaded.
LEMMA LossNotedAway ==
  ASSUME LossInv, NEW kept, UNCHANGED outside,
         \/ OpenFails
         \/ \E how : Opens(how, kept)
         \/ Closes(kept)
  PROVE  \A w \in Stale : WillNotice' \/ w \in missed' \/ w \in Coming \cup kept
<1> USE DEF outside, WillNotice
<1>1. CASE OpenFails
  BY <1>1 DEF OpenFails
<1>2. ASSUME NEW how, Opens(how, kept), NEW w \in Stale
      PROVE  WillNotice' \/ w \in missed' \/ w \in Coming \cup kept
  BY <1>2 DEF LossInv, Opens
<1>3. ASSUME Closes(kept), NEW w \in Stale
      PROVE  WillNotice' \/ w \in missed' \/ w \in Coming \cup kept
  BY <1>3 DEF LossInv, Closes, Overlooked, Changed, Noted
<1> QED
  BY <1>1, <1>2, <1>3


\* The same when the worlds go on being what they are.
LEMMA LossPassedOver ==
  ASSUME LossInv, NEW kept, UNCHANGED outside, UNCHANGED loaded,
         Range(alive') \subseteq Range(alive), kept \subseteq Coming', Coming \subseteq Coming',
         \/ UNCHANGED <<handle, missed>>
         \/ OpenFails
         \/ \E how : Opens(how, kept)
         \/ Closes(kept)
  PROVE  LossInv'
<1> USE DEF outside
<1>1. Stale' \subseteq Stale
  BY DEF Stale
<1>2. CASE UNCHANGED <<handle, missed>>
  BY <1>1, <1>2 DEF LossInv, WillNotice, handle
<1>3. CASE OpenFails \/ (\E how : Opens(how, kept)) \/ Closes(kept)
  <2>1. \A w \in Stale : WillNotice' \/ w \in missed' \/ w \in Coming \cup kept
    BY <1>3, LossNotedAway
  <2> QED
    BY <1>1, <2>1 DEF LossInv
<1> QED
  BY <1>2, <1>3

LEMMA GoingOn ==
  ASSUME Fit(job'), job'.kind \in {"idle", "load"}
  PROVE  Coming' = Range(job'.todo)
<1>1. CASE job'.kind = "load"
  BY <1>1, ComingThen
<1>2. CASE job'.kind = "idle"
  <2>1. job'.todo = <<>>
    BY <1>2, IdleIs DEF Fit
  <2> QED
    BY <1>2, <2>1, ComingThen DEF Range
<1> QED
  BY <1>1, <1>2

LEMMA AliveShrinks ==
  ASSUME StateInv, alive' = alive \/ \E w : alive' = RemoveFirst(alive, w)
  PROVE  Range(alive') \subseteq Range(alive)
BY Lists, Removed

LEMMA LossAfterOpening ==
  ASSUME StateInv, LossInv, LoadOpen
  PROVE  LossInv'
<1> DEFINE h == Head(job.todo)
<1>1. /\ Fit(job) /\ job.kind = "load" /\ Coming = Range(job.todo) /\ h \in Range(job.todo)
      /\ UNCHANGED outside /\ loaded' = [loaded EXCEPT ![h] = NONE]
  BY Lists, JobHas, ComingIs DEF LoadOpen
<1>2. Range(alive') \subseteq Range(alive)
  BY <1>1, FitAfterOpening, AliveShrinks
<1>3. \A w \in Stale' : w = h \/ w \in Stale
  BY <1>1, <1>2, Lists DEF Stale, outside, StateInv, TypeOK
<1>4. CASE /\ UNCHANGED <<handle, missed>> /\ job'.kind = "read" /\ job'.todo = job.todo
  BY <1>1, <1>3, <1>4, ComingThen DEF LossInv, WillNotice, handle, outside
<1>5. CASE /\ Opens("rdonly", Range(job.todo)) /\ job'.kind = "read" /\ job'.todo = job.todo
  <2>1. \A w \in Stale : WillNotice' \/ w \in missed' \/ w \in Coming \cup Range(job.todo)
    BY <1>1, <1>5, LossNotedAway
  <2> QED
    BY <1>1, <1>3, <1>5, <2>1, ComingThen DEF LossInv
<1>6. CASE OpenFails
  BY <1>6 DEF OpenFails, LossInv, WillNotice
<1> QED
  BY <1>1, <1>4, <1>5, <1>6, FitAfterOpening

LEMMA LossAfterReading ==
  ASSUME StateInv, LossInv, LoadRead \/ LoadFails
  PROVE  LossInv'
<1> DEFINE h == Head(job.todo)
<1>1. /\ Fit(job) /\ job.kind = "read" /\ Coming = {h} \cup Range(Tail(job.todo))
      /\ UNCHANGED <<outside, handle>>
  BY Lists, FitAfterReading, JobHas, ComingIs DEF LoadRead, LoadFails
<1>2. Range(alive') \subseteq Range(alive)
  BY <1>1, FitAfterReading, AliveShrinks
<1>3. Coming' = Range(Tail(job.todo))
  BY <1>1, FitAfterReading, GoingOn, ComingThen
<1>4. \A w \in Stale' : (w \in Stale /\ w # h) \/ w \in missed'
  <2>1. CASE LoadRead
    <3>1. loaded' = [loaded EXCEPT ![h] = db]
      BY <2>1 DEF LoadRead
    <3> QED
      BY <1>1, <1>2, <3>1, Lists DEF Stale, outside, StateInv, TypeOK
  <2>2. CASE LoadFails
    <3>1. missed' = missed \cup {h} /\ loaded' = loaded
      BY <2>2 DEF LoadFails
    <3> QED
      BY <1>1, <1>2, <3>1 DEF Stale, outside
  <2> QED
    BY <2>1, <2>2
<1>5. \A w \in missed : w = h \/ w \in missed'
  BY DEF LoadRead, LoadFails
<1> QED
  BY <1>1, <1>3, <1>4, <1>5 DEF LossInv, WillNotice, handle, outside

LEMMA LossAfterClosing ==
  ASSUME StateInv, LossInv, LoadClose
  PROVE  LossInv'
<1>1. /\ Fit(job) /\ job.kind = "close" /\ Coming = Range(Tail(job.todo))
      /\ UNCHANGED <<outside, loaded>> /\ Closes(Range(Tail(job.todo)))
  BY Lists, FitAfterClosing, ComingIs DEF LoadClose
<1>2. Range(alive') \subseteq Range(alive)
  BY <1>1, FitAfterClosing, AliveShrinks
<1>3. Coming' = Range(Tail(job.todo))
  BY <1>1, FitAfterClosing, GoingOn
<1> QED
  BY <1>1, <1>2, <1>3, LossPassedOver

LEMMA LossAfterChecking ==
  ASSUME StateInv, LossInv, NEW worlds \in Seq(World), job = Idle, Check(worlds),
         UNCHANGED <<outside, alive, loaded>>
  PROVE  LossInv'
<1>1. Fit(job) /\ Coming = {} /\ Stale' = Stale
  BY Lists, ComingIs, IdleIs DEF Stale, outside
<1>2. /\ Fit(job') /\ job'.kind \in {"idle", "load"}
      /\ Changed => job'.todo = worlds
  BY <1>1, FitAfterChecking
<1>3. Changed => Coming' = Range(worlds)
  BY <1>2, GoingOn
<1>4. /\ noted' = Noted /\ UNCHANGED clean
      /\ missed' = missed \cup (IF clean THEN Overlooked(Range(worlds)) ELSE {})
  BY DEF Check
<1> SUFFICES ASSUME NEW w \in Stale PROVE WillNotice' \/ w \in missed' \/ w \in Coming'
  BY <1>1 DEF LossInv
<1>5. WillNotice \/ w \in missed
  BY <1>1 DEF LossInv
<1>6. mtime' = mtime
  BY DEF outside
<1> QED
  BY <1>3, <1>4, <1>5, <1>6 DEF WillNotice, Noted, Overlooked, Changed


LEMMA LossAfterStarting ==
  ASSUME StateInv, LossInv, NEW w \in World, Refresh(w) \/ New(w) \/ Duplicate(w)
  PROVE  LossInv'
<1>1. /\ Fit(job) /\ job = Idle /\ Coming = {} /\ UNCHANGED <<outside, handle, loaded, missed>>
  BY Lists, ComingIs, IdleIs DEF Refresh, New, Duplicate
<1>2. Coming' = {w}
  BY <1>1, FitAfterStarting, ComingThen, One
<1>3. Range(alive') \subseteq Range(alive) \cup {w}
  <2>1. CASE Refresh(w)
    BY <2>1 DEF Refresh
  <2>2. CASE New(w)
    BY <2>2, One DEF New
  <2>3. CASE Duplicate(w)
    BY <2>3, Lists, Appended DEF Duplicate
  <2> QED
    BY <2>1, <2>2, <2>3
<1>4. \A v \in Stale' : v \in Stale \/ v = w
  BY <1>1, <1>3 DEF Stale, outside
<1> QED
  BY <1>1, <1>2, <1>4 DEF LossInv, WillNotice, handle, outside

\* A world that is gone is connected no longer.
LEMMA LossAfterFinalize ==
  ASSUME StateInv, LossInv, NEW w \in World, Finalize(w)
  PROVE  LossInv'
<1>1. /\ UNCHANGED <<outside, handle, job>> /\ alive' = RemoveFirst(alive, w)
      /\ loaded' = [loaded EXCEPT ![w] = NONE] /\ missed' = missed \ {w}
  BY DEF Finalize
<1>2. Range(alive') = Range(alive) \ {w}
  BY <1>1, Lists, Removed
<1>3. \A v \in Stale' : v \in Stale /\ v # w
  BY <1>1, <1>2, Lists DEF Stale, outside, StateInv, TypeOK
<1>4. Coming' = Coming
  BY <1>1 DEF Coming
<1> QED
  BY <1>1, <1>3, <1>4 DEF LossInv, WillNotice, handle, outside

LEMMA LossAfterBeginning ==
  ASSUME StateInv, LossInv, NEW w \in World, TransactBegin(w)
  PROVE  LossInv'
<1>1. Fit(job) /\ job = Idle /\ Coming = {} /\ UNCHANGED <<outside, alive, loaded>>
  BY Lists, ComingIs, IdleIs DEF TransactBegin
<1>2. \/ UNCHANGED <<handle, missed>>
      \/ OpenFails
      \/ \E how : Opens(how, {})
  BY <1>1, FitAfterBeginning
<1> QED
  BY <1>1, <1>2, LossPassedOver

\* The database changes.
LEMMA LossAfterChange ==
  ASSUME LossInv, mtime' = clock, UNCHANGED <<handle, alive, job>>,
         missed' = missed \cup (IF clock = noted /\ clean THEN Range(alive) ELSE {})
           \/ missed' = missed \cup (IF clock = noted THEN Range(alive) ELSE {})
  PROVE  LossInv'
BY DEF LossInv, WillNotice, Stale, handle

LEMMA LossAfterNestedSync ==
  ASSUME StateInv, LossInv, NEW v \in World, NestedSync(v)
  PROVE  LossInv'
<1>1. /\ UNCHANGED <<outside, alive, job, clean>> /\ Changed /\ noted' = Noted
      /\ loaded' = [loaded EXCEPT ![v] = db]
      /\ missed' = (missed \cup Overlooked({v})) \ {v}
  BY DEF NestedSync
<1>2. \A w \in Stale' : w \in Stale /\ w # v
  BY <1>1, Lists DEF Stale, outside, StateInv, TypeOK
<1>3. Overlooked({v}) = Stale \ {v}
  BY <1>1 DEF Overlooked
<1> QED
  BY <1>1, <1>2, <1>3 DEF LossInv

LEMMA LossAfterTransacting ==
  ASSUME StateInv, LossInv, TransactFails \/ TransactDone
  PROVE  LossInv'
<1>1. /\ Fit(job) /\ job.kind = "transact" /\ Coming = {} /\ UNCHANGED <<outside, alive, loaded>>
  BY Lists, FitAfterTransacting, ComingIs DEF TransactFails, TransactDone
<1>2. PICK kept : LeaveTransact(kept) /\ kept \subseteq Coming'
  <2>1. CASE TransactFails
    BY <2>1 DEF TransactFails
  <2>2. CASE TransactDone
    <3>1. Coming' = Range(job.todo)
      BY <1>1, <2>2, FitAfterTransacting, ComingThen
    <3> QED
      BY <2>2, <3>1 DEF TransactDone
  <2> QED
    BY <2>1, <2>2
<1>3. UNCHANGED <<handle, missed>> \/ Closes(kept)
  BY <1>2 DEF LeaveTransact
<1> QED
  BY <1>1, <1>2, <1>3, LossPassedOver

LEMMA LossAfterClients ==
  ASSUME LossInv, Lock \/ Unlock
  PROVE  LossInv'
<1>1. UNCHANGED <<outside, alive, loaded, job>> /\ Coming' = Coming
  BY DEF Lock, Unlock, Coming
<1>2. \/ UNCHANGED <<handle, missed>>
      \/ OpenFails
      \/ \E how : Opens(how, {})
      \/ Closes({})
  BY DEF Lock, Unlock
<1> QED
  BY <1>1, <1>2, LossPassedOver

LEMMA LossAfterQuery ==
  ASSUME LossInv, Query
  PROVE  LossInv'
<1>1. UNCHANGED <<outside, alive, loaded, job>> /\ Coming' = Coming /\ Stale' = Stale
  BY DEF Query, Coming, Stale, outside
<1>2. CASE OpenFails
  BY <1>2 DEF OpenFails, LossInv, WillNotice
<1>3. CASE /\ clean' = TRUE
           /\ noted' = IF yast THEN noted ELSE mtime
           /\ missed' = missed \cup (IF ~clean \/ (~yast /\ mtime # noted) THEN Stale ELSE {})
  BY <1>1, <1>3 DEF LossInv, WillNotice, outside
<1> QED
  BY <1>2, <1>3 DEF Query

LEMMA LossInvKept ==
  ASSUME StateInv, LossInv, [Next]_vars
  PROVE  LossInv'
<1>1. CASE UNCHANGED <<db, mtime, handle, alive, loaded, job, missed>>
  BY <1>1 DEF LossInv, Stale, WillNotice, Coming, handle
<1>2. CASE Loading
  BY <1>2, LossAfterOpening, LossAfterReading, LossAfterClosing DEF Loading
<1>3. CASE Watch
  BY <1>3, Lists, LossAfterChecking DEF Watch
<1>4. ASSUME NEW w \in World, Sync(w) PROVE LossInv'
  BY <1>4, One, LossAfterChecking DEF Sync
<1>5. ASSUME NEW w \in World,
             Refresh(w) \/ New(w) \/ Duplicate(w) \/ Finalize(w) \/ TransactBegin(w)
      PROVE  LossInv'
  BY <1>5, LossAfterStarting, LossAfterFinalize, LossAfterBeginning
<1>6. CASE TransactStep
  BY <1>6, LossAfterChange DEF TransactStep
<1>7. CASE OtherChanges
  BY <1>7, LossAfterChange DEF OtherChanges
<1>8. CASE TransactFails \/ TransactDone \/ \E v \in World : NestedSync(v)
  BY <1>8, LossAfterTransacting, LossAfterNestedSync
<1>9. CASE Lock \/ Unlock \/ Query
  BY <1>9, LossAfterClients, LossAfterQuery
<1>10. CASE Tick \/ OtherLocks \/ OtherUnlocks \/ YastStarts \/ YastEnds
  BY <1>1, <1>10 DEF Tick, OtherLocks, OtherUnlocks, YastStarts, YastEnds
<1> QED
  BY <1>1, <1>2, <1>3, <1>4, <1>5, <1>6, <1>7, <1>8, <1>9, <1>10
     DEF Next, Transacting, Clienting, Others, vars, outside


-----------------------------------------------------------------------------
(* One world by itself *)

\* One world, which nobody else uses, and a database that stays as it is while it is open
\* and in a second that was noted.
ByItself ==
  (\E w : World = {w}) /\ Clients = {} /\ Faults \cap {"read", "during", "second"} = {}

\* No change goes by.  When the database is to be closed the world shows it.
AloneInv ==
  /\ missed = {} /\ lockCount = 0 /\ job.kind # "transact"
  /\ job.kind = "close" => \A w \in World : loaded[w] = db

LEMMA AloneInvGives == AloneInv /\ LossInv => NoChangeIsLost
BY IdleIs DEF AloneInv, LossInv, NoChangeIsLost, Coming

LEMMA AloneInvBegins == Init => AloneInv
BY IdleIs DEF Init, AloneInv

LEMMA AloneInvKept ==
  ASSUME ByItself, StateInv, HandleInv, AloneInv, [Next]_vars
  PROVE  AloneInv'
<1>1. PICK m : World = {m}
  BY DEF ByItself
<1>2. /\ Fit(job) /\ Stale \subseteq {m}
      /\ job.kind # "idle" => Head(job.todo) = m /\ m \in Range(job.todo)
  BY <1>1, Lists, JobHas
<1>3. CASE UNCHANGED <<db, lockCount, loaded, job, missed>>
  BY <1>3 DEF AloneInv
<1>4. CASE LoadOpen
  <2>1. UNCHANGED lockCount /\ job'.kind \in {"read", "idle", "load"}
    BY <1>2, <1>4, FitAfterOpening DEF LoadOpen
  <2>2. missed' = {}
    BY <1>2, <1>4, FitAfterOpening DEF AloneInv, Opens, OpenFails
  <2> QED
    BY <2>1, <2>2 DEF AloneInv
<1>5. CASE LoadRead
  <2>1. /\ UNCHANGED <<db, lockCount>> /\ loaded' = [loaded EXCEPT ![m] = db] /\ missed' = {}
    BY <1>2, <1>5, FitAfterReading DEF LoadRead, AloneInv, outside
  <2>2. job'.kind \in {"idle", "load", "close"}
    BY <1>2, <1>5, FitAfterReading
  <2>3. \A w \in World : loaded'[w] = db'
    BY <1>1, <2>1 DEF StateInv, TypeOK
  <2> QED
    BY <2>1, <2>2, <2>3 DEF AloneInv
<1>6. CASE LoadClose
  <2>1. UNCHANGED lockCount /\ Closes(Range(Tail(job.todo))) /\ job.kind = "close"
    BY <1>6 DEF LoadClose
  <2>2. Stale = {}
    BY <1>1, <1>2, <2>1 DEF AloneInv, Stale
  <2>3. job'.kind \in {"idle", "load"}
    BY <1>2, <1>6, FitAfterClosing
  <2> QED
    BY <2>1, <2>2, <2>3 DEF AloneInv, Closes, Overlooked
<1>7. ASSUME NEW worlds \in Seq(World), job = Idle, Check(worlds), UNCHANGED lockCount,
             Stale \subseteq Range(worlds)
      PROVE  AloneInv'
  <2>1. job'.kind \in {"idle", "load"}
    BY <1>2, <1>7, FitAfterChecking
  <2> QED
    BY <1>7, <2>1 DEF AloneInv, Check, Overlooked
<1>8. CASE Watch
  BY <1>7, <1>8, Lists DEF Watch, Stale
<1>9. ASSUME NEW w \in World, Sync(w) PROVE AloneInv'
  <2>1. Stale \subseteq Range(<<w>>) /\ <<w>> \in Seq(World)
    BY <1>1, <1>2, One
  <2> QED
    BY <1>7, <1>9, <2>1 DEF Sync
<1>10. ASSUME NEW w \in World, Refresh(w) \/ New(w)
       PROVE  AloneInv'
  <2>1. UNCHANGED <<lockCount, missed>> /\ job'.kind = "load"
    BY <1>2, <1>10, FitAfterStarting DEF Refresh, New
  <2> QED
    BY <2>1 DEF AloneInv
<1>11. ASSUME NEW w \in World, Finalize(w)
       PROVE  AloneInv'
  BY <1>11, IdleIs DEF Finalize, AloneInv
<1>12. CASE OtherChanges
  <2>1. status = "none" /\ clock # noted
    BY <1>12 DEF OtherChanges, ByItself
  <2>2. job.kind # "close"
    BY <1>2, <2>1 DEF HandleInv, Fit
  <2> QED
    BY <1>12, <2>1, <2>2 DEF OtherChanges, AloneInv
<1>13. CASE Tick \/ OtherLocks \/ OtherUnlocks \/ YastStarts \/ YastEnds
  BY <1>3, <1>13 DEF Tick, OtherLocks, OtherUnlocks, YastStarts, YastEnds
<1>14. ~(LoadFails \/ Transacting \/ Lock \/ Unlock \/ Query)
  <2>1. ~Transacting
    BY DEF AloneInv, Transacting, TransactStep, TransactFails, TransactDone, NestedSync
  <2>2. ~LoadFails /\ ~Lock /\ ~Query
    BY DEF ByItself, LoadFails, Lock, Query
  <2>3. ~Unlock
    BY DEF AloneInv, Unlock
  <2> QED
    BY <2>1, <2>2, <2>3
<1>15. \A w \in World : ~(Duplicate(w) \/ TransactBegin(w))
  BY DEF ByItself, Duplicate, TransactBegin
<1> QED
  BY <1>3, <1>4, <1>5, <1>6, <1>8, <1>9, <1>10, <1>11, <1>12, <1>13, <1>14, <1>15
     DEF Next, Loading, Clienting, Others, vars, outside

-----------------------------------------------------------------------------
(* The theorems *)

SystemInv == StateInv /\ HandleInv /\ LossInv

LEMMA SystemInvBegins == SystemAssumption /\ Init => SystemInv
BY StateInvBegins, HandleInvBegins, LossInvBegins DEF SystemInv

LEMMA SystemInvKept ==
  ASSUME SystemAssumption, SystemInv, [Next]_vars
  PROVE  SystemInv'
BY Lists, StateInvKept, HandleInvKept, LossInvKept DEF SystemInv

\* The database stays locked until the lock is given back, whoever opens and closes it
\* meanwhile, and exactly one timer watches it unless it is open (open_database,
\* close_database, the close_db flags of rc-rpmman.c).
THEOREM LocksAreKept ==
  ASSUME SystemAssumption
  PROVE  Spec => [](TypeOK /\ LockIsHeld /\ WatchedByOne)
<1>1. Init => SystemInv
  BY SystemInvBegins
<1>2. SystemInv /\ [Next]_vars => SystemInv'
  BY SystemInvKept
<1>3. SystemInv => TypeOK /\ LockIsHeld /\ WatchedByOne
  BY HandleInvGives DEF SystemInv, StateInv
<1> QED
  BY <1>1, <1>2, <1>3, PTL DEF Spec

\* Whatever clients, other processes and failures do, a world that differs from the
\* database will be loaded at the next check, or the change went by in one of the ways that
\* are named (rc_rpmman_is_database_changed, close_database).
THEOREM LossesHaveNames ==
  ASSUME SystemAssumption
  PROVE  Spec => []LossesAreExplained
<1>1. Init => SystemInv
  BY SystemInvBegins
<1>2. SystemInv /\ [Next]_vars => SystemInv'
  BY SystemInvKept
<1>3. SystemInv => LossesAreExplained
  BY LossInvGives DEF SystemInv
<1> QED
  BY <1>1, <1>2, <1>3, PTL DEF Spec

\* One world by itself loses no change (rc_world_system_sync, database_check_func).
THEOREM NothingIsLost ==
  ASSUME SystemAssumption, ByItself
  PROVE  Spec => []NoChangeIsLost
<1> DEFINE Inv == SystemInv /\ AloneInv
<1>1. Init => Inv
  BY SystemInvBegins, AloneInvBegins
<1>2. Inv /\ [Next]_vars => Inv'
  BY SystemInvKept, AloneInvKept DEF SystemInv
<1>3. Inv => NoChangeIsLost
  BY AloneInvGives DEF SystemInv
<1> QED
  BY <1>1, <1>2, <1>3, PTL DEF Spec

=============================================================================
