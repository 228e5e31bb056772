--------------------------- MODULE RpmTransact_proofs ---------------------------
(***************************************************************************)
(* What holds of a transaction of rpm, for all packages, names and         *)
(* obsoletes.                                                              *)
(*                                                                         *)
(* A transaction set that is not taken over from an earlier transaction is *)
(* built from what is asked for and nothing else, and that is enough: what *)
(* rpm has installed stays installed, what it has removed stays away.      *)
(***************************************************************************)
EXTENDS RpmTransact, FiniteSetTheorems, TLAPS

\* Whether every transaction begins with an empty set: rpm 4.1 keeps the set for as long
\* as the client keeps the database open.
Fresh == ~(Keeps /\ Locks)

\* The database is open within a transaction, which closes it if the client has not
\* locked it.
DatabaseInv ==
  /\ at = "idle" => (open = "rdwr" <=> locked)
  /\ at # "idle" => open = "rdwr" /\ (job.close <=> ~locked)
  /\ locked => Locks

\* What is in the set and what is still to be put into it is what is asked for.
SetInv ==
  at # "idle" =>
    /\ asked \in Requests
    /\ job.test <=> asked.noact
    /\ at = "add" => adds \cup job.install = asked.install /\ erases = {}
    /\ at # "add" => adds = asked.install
    /\ at = "erase" => erases \cup job.remove = RealRemoves
    /\ at \in {"check", "run"} => erases = RealRemoves
    /\ at # "run" => job.ran = {} /\ job.seqno = 0

\* What the run has done stands.
RunInv ==
  at = "run" =>
    /\ job.seqno <= job.total
    /\ \A p, q \in adds : p # q => ~Ousts(p, q)
    /\ job.ran \cap adds \subseteq installed
    /\ job.ran \cap erases \cap installed = {}
    /\ \A p \in job.ran \cap adds, q \in asked.remove : Ousts(p, q) => q \notin installed

TransactInv == TypeOK /\ DatabaseInv /\ (Fresh => SetInv /\ RunInv /\ DoneMeansDone)

-----------------------------------------------------------------------------
(* Of requests and jobs *)

Job == [install : SUBSET Package, remove : SUBSET Package, ran : SUBSET Package,
        close : BOOLEAN, test : BOOLEAN, seqno : Nat, total : Nat]

LEMMA RequestsAre ==
  ASSUME NEW r \in Requests
  PROVE  /\ r \in [install : SUBSET Package, remove : SUBSET Package, noact : BOOLEAN]
         /\ r.install \cap r.remove = {}
         /\ \A p, q \in r.install : p # q => ~Same(p, q)
BY DEF Requests

LEMMA JobChanges ==
  ASSUME NEW j \in Job
  PROVE  /\ \A S \in SUBSET Package :
              /\ [j EXCEPT !.install = S] \in Job /\ [j EXCEPT !.remove = S] \in Job
              /\ [j EXCEPT !.ran = S] \in Job
         /\ \A n \in Nat : [j EXCEPT !.seqno = n] \in Job /\ [j EXCEPT !.total = n] \in Job
BY DEF Job

LEMMA StepOf ==
  ASSUME NEW j \in Job
  PROVE  /\ Step(j) \in Job
         /\ Step(j).ran = j.ran /\ Step(j).close = j.close /\ Step(j).test = j.test
         /\ Step(j).total = j.total
         /\ j.seqno <= j.total => Step(j).seqno <= j.total
BY DEF Step, Job

LEMMA BeginOf ==
  ASSUME NEW r \in Requests, NEW b \in BOOLEAN
  PROVE  /\ Begin(r, b) \in Job
         /\ Begin(r, b).install = r.install /\ Begin(r, b).ran = {} /\ Begin(r, b).seqno = 0
         /\ Begin(r, b).close = b /\ Begin(r, b).test = r.noact
BY RequestsAre DEF Begin, NoJob, Job

\* The steps of a transaction can be counted.
LEMMA TotalIsNumber ==
  ASSUME RpmTransactAssumption, TypeOK
  PROVE  2 * Cardinality(asked.install) + Cardinality(Upgrades)
           + Cardinality(RealRemoves) + Cardinality(Obsoleted) \in Nat
<1>1. IsFiniteSet(Package) /\ Obsoletes \subseteq Package \X Package
  BY DEF RpmTransactAssumption
<1>2. asked.install \subseteq Package /\ asked.remove \subseteq Package
  BY DEF TypeOK
<1>3. Upgrades \subseteq Package /\ RealRemoves \subseteq Package
  BY <1>2 DEF Upgrades, RealRemoves
<1>4. Obsoleted \subseteq Package \X Package
  BY <1>1 DEF Obsoleted
<1>5. IsFiniteSet(Package \X Package)
  BY <1>1, FS_Product
<1>6. /\ IsFiniteSet(asked.install) /\ IsFiniteSet(Upgrades)
      /\ IsFiniteSet(RealRemoves) /\ IsFiniteSet(Obsoleted)
  BY <1>1, <1>2, <1>3, <1>4, <1>5, FS_Subset
<1>7. /\ Cardinality(asked.install) \in Nat /\ Cardinality(Upgrades) \in Nat
      /\ Cardinality(RealRemoves) \in Nat /\ Cardinality(Obsoleted) \in Nat
  BY <1>6, FS_CardinalityType
<1> QED
  BY <1>7

-----------------------------------------------------------------------------
(* The invariant *)

LEMMA TransactBegins == RpmTransactAssumption /\ Init => TransactInv
<1> SUFFICES ASSUME RpmTransactAssumption, Init PROVE TransactInv
  OBVIOUS
<1>1. TypeOK
  BY DEF Init, TypeOK, NoJob, NoRequest
<1>2. DatabaseInv /\ SetInv /\ RunInv /\ DoneMeansDone
  BY DEF Init, DatabaseInv, SetInv, RunInv, DoneMeansDone
<1> QED
  BY <1>1, <1>2 DEF TransactInv

LEMMA TypeKept ==
  ASSUME RpmTransactAssumption, TypeOK, Next
  PROVE  TypeOK'
<1> USE DEF Job
<1>1. CASE Lock \/ Unlock
  BY <1>1 DEF TypeOK, Lock, Unlock
<1>2. CASE Transact
  <2>1. PICK r \in Requests : asked' = r /\ job' = Begin(r, open = "none")
    BY <1>2 DEF Transact
  <2>2. job' \in Job /\ job'.ran = {}
    BY <2>1, BeginOf, (open = "none") \in BOOLEAN
  <2>3. asked' \in [install : SUBSET Package, remove : SUBSET Package, noact : BOOLEAN]
    BY <2>1, RequestsAre
  <2> QED
    BY <1>2, <2>2, <2>3 DEF TypeOK, Transact
<1>3. CASE TransactFails
  <2>1. asked' \in [install : SUBSET Package, remove : SUBSET Package, noact : BOOLEAN]
    BY <1>3, RequestsAre DEF TransactFails
  <2>2. job' \in Job
    BY <1>3 DEF TransactFails, NoJob
  <2> QED
    BY <1>3, <2>1, <2>2 DEF TypeOK, TransactFails
<1>4. CASE AddInstall \/ AddErase \/ AddDone
  <2>1. job \in Job
    BY DEF TypeOK
  <2>2. /\ RealRemoves \in SUBSET Package
        /\ \A p : job.install \ {p} \in SUBSET Package /\ job.remove \ {p} \in SUBSET Package
    BY <2>1 DEF TypeOK, RealRemoves
  <2>3. job' \in Job /\ job'.ran = job.ran
    BY <1>4, <2>1, <2>2, JobChanges DEF AddInstall, AddErase, AddDone
  <2>4. adds \subseteq adds' /\ adds' \subseteq Package /\ erases \subseteq erases'
        /\ erases' \subseteq Package /\ at' \in {"add", "erase"} /\ at # "idle"
    BY <1>4, <2>1 DEF AddInstall, AddErase, AddDone, TypeOK
  <2>5. UNCHANGED <<installed, open, locked, asked, outcome>>
    BY <1>4 DEF AddInstall, AddErase, AddDone
  <2> QED
    BY <2>3, <2>4, <2>5 DEF TypeOK
<1>5. CASE EraseDone
  <2>1. job \in Job
    BY DEF TypeOK
  <2>2. job' \in Job /\ job'.ran = job.ran
    BY <1>5, <2>1, TotalIsNumber, JobChanges DEF EraseDone
  <2> QED
    BY <1>5, <2>2 DEF TypeOK, EraseDone
<1>6. CASE Run
  BY <1>6 DEF TypeOK, Run
<1>7. CASE TransProgress \/ InstStart \/ Uninst
  <2>1. job \in Job /\ job.ran \subseteq adds \cup erases
    BY <1>7 DEF TypeOK, TransProgress, InstStart, Uninst
  <2>2. PICK S \in SUBSET (adds \cup erases) :
          LET j == [job EXCEPT !.ran = S] IN job' \in {j, Step(j), Step(job)}
    BY <1>7, <2>1 DEF TransProgress, InstStart, Uninst
  <2>3. S \in SUBSET Package
    BY DEF TypeOK
  <2>4. [job EXCEPT !.ran = S] \in Job /\ [job EXCEPT !.ran = S].ran = S
    BY <2>1, <2>3, JobChanges
  <2>5. job' \in Job /\ job'.ran \subseteq adds \cup erases
    BY <2>1, <2>2, <2>4, StepOf
  <2>6. installed' \subseteq Package
    BY <1>7 DEF TransProgress, InstStart, Uninst, TypeOK
  <2>7. UNCHANGED <<open, locked, adds, erases, at, asked, outcome>>
    BY <1>7 DEF TransProgress, InstStart, Uninst
  <2> QED
    BY <2>5, <2>6, <2>7 DEF TypeOK
<1>8. CASE AddInstallFails \/ AddEraseFails \/ CheckFails \/ RunFails \/ RunDone
  <2>1. job \in Job
    BY DEF TypeOK
  <2>2. job' \in Job
    BY <1>8, <2>1, JobChanges DEF AddInstallFails, AddEraseFails, CheckFails, RunFails, RunDone
  <2>3. installed' = installed /\ \E r \in {"done", "failed"} : End(r)
    BY <1>8 DEF AddInstallFails, AddEraseFails, CheckFails, RunFails, RunDone
  <2> QED
    BY <2>2, <2>3 DEF TypeOK, End
<1> QED
  BY <1>1, <1>2, <1>3, <1>4, <1>5, <1>6, <1>7, <1>8 DEF Next

LEMMA DatabaseKept ==
  ASSUME TypeOK, DatabaseInv, Next
  PROVE  DatabaseInv'
<1>0. job \in Job /\ open \in {"none", "rdwr"} /\ locked \in BOOLEAN
  BY DEF TypeOK, Job
<1>1. CASE Lock \/ Unlock \/ TransactFails
  BY <1>0, <1>1 DEF DatabaseInv, Lock, Unlock, TransactFails
<1>2. CASE Transact
  <2>1. PICK r \in Requests : job' = Begin(r, open = "none")
    BY <1>2 DEF Transact
  <2>2. job'.close = (open = "none")
    BY <2>1, BeginOf, (open = "none") \in BOOLEAN
  <2>3. job'.close <=> ~locked
    BY <1>0, <1>2, <2>2 DEF DatabaseInv, Transact
  <2> QED
    BY <1>2, <2>3 DEF DatabaseInv, Transact
<1>3. CASE /\ at # "idle" /\ at' # "idle" /\ job'.close = job.close
           /\ UNCHANGED <<open, locked>>
  BY <1>3 DEF DatabaseInv
<1>4. CASE at # "idle" /\ \E r \in {"done", "failed"} : End(r)
  BY <1>0, <1>4 DEF DatabaseInv, End
<1>5. CASE AddInstall \/ AddErase \/ AddDone \/ EraseDone \/ Run
  BY <1>0, <1>3, <1>5 DEF AddInstall, AddErase, AddDone, EraseDone, Run, Job
<1>6. CASE TransProgress \/ InstStart \/ Uninst
  <2>1. \A S \in SUBSET Package : [job EXCEPT !.ran = S] \in Job
                                  /\ [job EXCEPT !.ran = S].close = job.close
    BY <1>0, JobChanges DEF Job
  <2>2. \A p \in adds \cup erases : job.ran \cup {p} \in SUBSET Package
    BY DEF TypeOK
  <2>3. \E S \in SUBSET Package :
          LET j == [job EXCEPT !.ran = S] IN job' \in {j, Step(j), Step(job)}
    BY <1>6, <2>2 DEF TransProgress, InstStart, Uninst
  <2>4. job'.close = job.close
    BY <1>0, <2>1, <2>3, StepOf
  <2> QED
    BY <1>3, <1>6, <2>4 DEF TransProgress, InstStart, Uninst
<1>7. CASE AddInstallFails \/ AddEraseFails \/ CheckFails \/ RunFails \/ RunDone
  BY <1>4, <1>7 DEF AddInstallFails, AddEraseFails, CheckFails, RunFails, RunDone
<1> QED
  BY <1>1, <1>2, <1>5, <1>6, <1>7 DEF Next

-----------------------------------------------------------------------------
(* What was asked for *)

\* RealRemoves leaves out exactly what is obsoleted.
LEMMA RealRemovesAre ==
  ASSUME RpmTransactAssumption
  PROVE  /\ RealRemoves \subseteq asked.remove
         /\ \A q \in asked.remove :
              q \in RealRemoves \/ \E p \in asked.install : <<p, q>> \in Obsoletes
         /\ \A p \in asked.install, q \in RealRemoves : <<p, q>> \notin Obsoletes
<1>1. RealRemoves \subseteq asked.remove
  BY DEF RealRemoves
<1>2. ASSUME NEW q \in asked.remove, q \notin RealRemoves
      PROVE  \E p \in asked.install : <<p, q>> \in Obsoletes
  <2>1. PICK pr \in Obsoleted : pr[2] = q
    BY <1>2 DEF RealRemoves
  <2>2. pr \in Package \X Package /\ pr \in Obsoletes /\ pr[1] \in asked.install
    BY <1>2, <2>1 DEF Obsoleted, RpmTransactAssumption
  <2>3. pr = <<pr[1], q>>
    BY <2>1, <2>2
  <2> QED
    BY <2>2, <2>3
<1>3. ASSUME NEW p \in asked.install, NEW q \in RealRemoves, <<p, q>> \in Obsoletes
      PROVE  FALSE
  <2>1. <<p, q>> \in Obsoleted
    BY <1>1, <1>3 DEF Obsoleted
  <2> QED
    BY <2>1 DEF RealRemoves
<1> QED
  BY <1>1, <1>2, <1>3

LEMMA SetKept ==
  ASSUME RpmTransactAssumption, TypeOK, DatabaseInv, SetInv, Fresh, Next
  PROVE  SetInv'
<1>0. job \in Job /\ open \in {"none", "rdwr"}
  BY DEF TypeOK, Job
<1>1. CASE Lock \/ Unlock \/ TransactFails
  BY <1>1 DEF SetInv, Lock, Unlock, TransactFails
<1>2. CASE Transact
  <2>1. PICK r \in Requests : asked' = r /\ job' = Begin(r, open = "none")
    BY <1>2 DEF Transact
  <2>2. job'.install = r.install /\ job'.ran = {} /\ job'.seqno = 0 /\ job'.test = r.noact
    BY <2>1, BeginOf, (open = "none") \in BOOLEAN
  <2>3. adds' = {} /\ erases' = {}
    BY <1>2 DEF Transact, DatabaseInv, Fresh
  <2>4. at' = "add"
    BY <1>2 DEF Transact
  <2>5. Requests' = Requests
    BY DEF Requests, Same
  <2> QED
    BY <2>1, <2>2, <2>3, <2>4, <2>5 DEF SetInv
<1>3. ASSUME UNCHANGED asked
      PROVE  Requests' = Requests /\ RealRemoves' = RealRemoves
  BY <1>3 DEF Requests, Same, RealRemoves, Obsoleted
<1>4. CASE AddInstall
  <2>1. PICK p \in job.install : adds' = adds \cup {p} /\ job' = [job EXCEPT !.install = @ \ {p}]
    BY <1>4 DEF AddInstall
  <2>2. /\ job'.install = job.install \ {p} /\ job'.test = job.test /\ job'.ran = job.ran
        /\ job'.seqno = job.seqno
    BY <1>0, <2>1 DEF Job
  <2> QED
    BY <1>3, <1>4, <2>1, <2>2 DEF SetInv, AddInstall
<1>5. CASE AddDone
  <2>1. /\ job'.install = {} /\ job'.remove = RealRemoves /\ job'.test = job.test
        /\ job'.ran = job.ran /\ job'.seqno = job.seqno
    BY <1>0, <1>5 DEF AddDone, Job
  <2>2. asked' = asked /\ at = "add" /\ at' = "erase" /\ adds' = adds /\ erases' = erases
        /\ job.install = {}
    BY <1>5 DEF AddDone
  <2> QED
    BY <1>3, <2>1, <2>2 DEF SetInv
<1>6. CASE AddErase
  <2>1. PICK p \in job.remove : erases' = erases \cup {p} /\ job' = [job EXCEPT !.remove = @ \ {p}]
    BY <1>6 DEF AddErase
  <2>2. /\ job'.remove = job.remove \ {p} /\ job'.test = job.test /\ job'.ran = job.ran
        /\ job'.seqno = job.seqno
    BY <1>0, <2>1 DEF Job
  <2> QED
    BY <1>3, <1>6, <2>1, <2>2 DEF SetInv, AddErase
<1>7. CASE EraseDone
  <2>1. job'.test = job.test /\ job'.ran = job.ran /\ job'.seqno = job.seqno
    BY <1>0, <1>7 DEF EraseDone, Job
  <2>2. /\ UNCHANGED <<asked, adds, erases>> /\ at = "erase" /\ at' = "check"
        /\ job.remove = {}
    BY <1>7 DEF EraseDone
  <2> QED
    BY <1>3, <2>1, <2>2 DEF SetInv
<1>8. CASE Run
  BY <1>3, <1>8 DEF SetInv, Run
<1>9. CASE TransProgress \/ InstStart \/ Uninst
  <2>1. \A S \in SUBSET Package : [job EXCEPT !.ran = S] \in Job
                                  /\ [job EXCEPT !.ran = S].test = job.test
    BY <1>0, JobChanges DEF Job
  <2>2. \A p \in adds \cup erases : job.ran \cup {p} \in SUBSET Package
    BY DEF TypeOK
  <2>3. \E S \in SUBSET Package :
          LET j == [job EXCEPT !.ran = S] IN job' \in {j, Step(j), Step(job)}
    BY <1>9, <2>2 DEF TransProgress, InstStart, Uninst
  <2>5. job'.test = job.test
    BY <1>0, <2>1, <2>3, StepOf
  <2>6. at = "run" /\ at' = "run" /\ UNCHANGED <<asked, adds, erases>>
    BY <1>9 DEF TransProgress, InstStart, Uninst
  <2> QED
    BY <1>3, <2>5, <2>6 DEF SetInv
<1>10. CASE AddInstallFails \/ AddEraseFails \/ CheckFails \/ RunFails \/ RunDone
  <2>1. at' = "idle"
    BY <1>10 DEF AddInstallFails, AddEraseFails, CheckFails, RunFails, RunDone, End
  <2> QED
    BY <2>1 DEF SetInv
<1> QED
  BY <1>1, <1>2, <1>4, <1>5, <1>6, <1>7, <1>8, <1>9, <1>10 DEF Next

LEMMA RunKept ==
  ASSUME RpmTransactAssumption, TypeOK, SetInv, RunInv, Next
  PROVE  RunInv'
<1>0. job \in Job
  BY DEF TypeOK, Job
<1>1. CASE at' # "run"
  BY <1>1 DEF RunInv
<1>2. CASE Run
  <2>1. job.ran = {} /\ job.seqno = 0 /\ job.total \in Nat
    BY <1>0, <1>2 DEF SetInv, Run, Job
  <2> QED
    BY <1>2, <2>1 DEF RunInv, Run, Ousts
<1>3. CASE TransProgress
  <2>1. job' = Step(job) /\ at = "run" /\ UNCHANGED <<installed, adds, erases, asked>>
    BY <1>3 DEF TransProgress
  <2> QED
    BY <1>0, <2>1, StepOf DEF RunInv, Ousts
<1>4. CASE at = "run" /\ (InstStart \/ Uninst)
  <2>1. /\ asked \in Requests /\ adds = asked.install /\ erases = RealRemoves
    BY <1>4 DEF SetInv
  <2>2. /\ \A p, q \in adds : p # q => ~Same(p, q) /\ ~Ousts(p, q)
        /\ adds \cap asked.remove = {} /\ erases \subseteq asked.remove
    BY <1>4, <2>1, RequestsAre, RealRemovesAre DEF RunInv
  <2>3. at' = "run" /\ UNCHANGED <<adds, erases, asked>>
    BY <1>4 DEF InstStart, Uninst
  <2>4. job.seqno <= job.total
    BY <1>4 DEF RunInv
  <2>5. CASE InstStart
    <3>1. PICK p \in adds \ job.ran :
            /\ job' = Step([job EXCEPT !.ran = @ \cup {p}])
            /\ installed' = {q \in installed : ~Replaces(p, q)} \cup {p}
      BY <2>5 DEF InstStart
    <3>0. /\ \A q \in adds : p # q => ~Replaces(p, q)
          /\ \A q : Ousts(p, q) => Replaces(p, q)
      BY <2>2, <3>1 DEF Replaces, Ousts
    <3>2. job.ran \cup {p} \in SUBSET Package
      BY <1>0 DEF TypeOK, Job
    <3> DEFINE j == [job EXCEPT !.ran = job.ran \cup {p}]
    <3>3. j \in Job /\ j.ran = job.ran \cup {p} /\ j.seqno = job.seqno /\ j.total = job.total
      BY <1>0, <3>2 DEF Job
    <3>4. job' = Step(j)
      BY <3>1
    <3> HIDE DEF j
    <3>5. job'.ran = job.ran \cup {p} /\ job'.seqno <= job'.total
      BY <2>4, <3>3, <3>4, StepOf
    <3>6. job'.ran \cap adds \subseteq installed'
      BY <1>4, <3>0, <3>1, <3>5 DEF RunInv
    <3>7. job'.ran \cap erases \cap installed' = {}
      BY <1>4, <2>2, <3>1, <3>5 DEF RunInv
    <3>8. ASSUME NEW r \in job'.ran \cap adds, NEW q \in asked.remove, Ousts(r, q)
          PROVE  q \notin installed'
      BY <1>4, <2>2, <3>0, <3>1, <3>5, <3>8 DEF RunInv
    <3> QED
      BY <2>2, <2>3, <3>5, <3>6, <3>7, <3>8 DEF RunInv, Ousts
  <2>6. CASE Uninst
    <3>1. PICK p \in erases \ job.ran :
            /\ job' = [job EXCEPT !.ran = @ \cup {p}]
            /\ installed' = installed \ {p}
      BY <2>6 DEF Uninst
    <3>2. /\ job'.ran = job.ran \cup {p} /\ job'.seqno = job.seqno /\ job'.total = job.total
      BY <1>0, <3>1 DEF Job
    <3>3. p \notin adds
      BY <2>2, <3>1
    <3> QED
      BY <1>4, <2>2, <2>3, <2>4, <3>1, <3>2, <3>3 DEF RunInv, Ousts
  <2> QED
    BY <1>4, <2>5, <2>6
<1> QED
  BY <1>1, <1>2, <1>3, <1>4
     DEF Next, Lock, Unlock, Transact, TransactFails, AddInstall, AddInstallFails, AddDone,
         AddErase, AddEraseFails, EraseDone, CheckFails, InstStart, Uninst, RunFails, RunDone, End

LEMMA DoneKept ==
  ASSUME RpmTransactAssumption, TypeOK, SetInv, RunInv, DoneMeansDone, Next
  PROVE  DoneMeansDone'
<1>1. CASE RunDone /\ ~asked.noact
  <2>1. /\ at = "run" /\ (job.test \/ adds \cup erases \subseteq job.ran)
        /\ UNCHANGED <<asked, installed>>
    BY <1>1 DEF RunDone, End
  <2>2. /\ job.test <=> asked.noact
        /\ adds = asked.install /\ erases = RealRemoves
    BY <2>1 DEF SetInv
  <2>3. adds \cup erases \subseteq job.ran
    BY <1>1, <2>1, <2>2
  <2>4. asked.install \subseteq installed
    BY <2>1, <2>2, <2>3 DEF RunInv
  <2>5. ASSUME NEW q \in asked.remove, q \in installed PROVE q \in LeftToNobody
    <3>1. q \notin RealRemoves
      BY <2>1, <2>2, <2>3, <2>5 DEF RunInv
    <3>2. \A p \in asked.install : ~Ousts(p, q)
      BY <2>1, <2>2, <2>3, <2>5 DEF RunInv
    <3> QED
      BY <2>5, <3>1, <3>2 DEF LeftToNobody
  <2>6. LeftToNobody' = LeftToNobody
    BY <2>1 DEF LeftToNobody, RealRemoves, Obsoleted, Ousts
  <2> QED
    BY <2>1, <2>4, <2>5, <2>6 DEF DoneMeansDone
<1>2. CASE Lock \/ Unlock
  BY <1>2 DEF Lock, Unlock, DoneMeansDone, LeftToNobody, RealRemoves, Obsoleted, Ousts
<1>3. CASE at' # "idle" \/ outcome' # "done" \/ asked'.noact
  BY <1>3 DEF DoneMeansDone
<1> QED
  BY <1>1, <1>2, <1>3
     DEF Next, Transact, TransactFails, AddInstall, AddInstallFails, AddDone,
         AddErase, AddEraseFails, EraseDone, CheckFails, Run, TransProgress, InstStart, Uninst,
         RunFails, RunDone, End

\* The invariant holds from the beginning and is kept by every step.
LEMMA TransactKeeps ==
  ASSUME RpmTransactAssumption, TransactInv, [Next]_vars
  PROVE  TransactInv'
<1>1. CASE Next
  <2>1. Fresh' = Fresh
    BY DEF Fresh
  <2> QED
    BY <1>1, <2>1, TypeKept, DatabaseKept, SetKept, RunKept, DoneKept DEF TransactInv
<1>2. CASE UNCHANGED vars
  BY <1>2 DEF vars, TransactInv, TypeOK, DatabaseInv, SetInv, RunInv, DoneMeansDone, Requests,
              Same, RealRemoves, Obsoleted, Ousts, LeftToNobody, Fresh
<1> QED
  BY <1>1, <1>2

\* What the invariant promises of a transaction.
LEMMA TransactGives ==
  ASSUME RpmTransactAssumption, TransactInv
  PROVE  /\ TypeOK /\ DatabaseIsGivenBack
         /\ Fresh => /\ DoneMeansDone /\ ObsoletedAreLeftToRpm /\ StepsStayInTotal
                     /\ RunsWhatIsAsked /\ NothingTwice
<1>1. TypeOK /\ DatabaseIsGivenBack
  BY DEF TransactInv, DatabaseInv, DatabaseIsGivenBack
<1>2. ASSUME Fresh
      PROVE  SetInv /\ RunInv /\ DoneMeansDone
  BY <1>2 DEF TransactInv
<1>3. ASSUME Fresh, at = "run"
      PROVE  /\ adds = asked.install /\ erases = RealRemoves /\ RealRemoves \subseteq asked.remove
             /\ asked.install \cap asked.remove = {}
             /\ \A p \in asked.install, q \in RealRemoves : <<p, q>> \notin Obsoletes
  BY <1>2, <1>3, RealRemovesAre, RequestsAre DEF SetInv
<1>4. ASSUME Fresh
      PROVE  ObsoletedAreLeftToRpm /\ RunsWhatIsAsked /\ NothingTwice
  BY <1>3, <1>4 DEF ObsoletedAreLeftToRpm, RunsWhatIsAsked, NothingTwice
<1>5. ASSUME Fresh
      PROVE  StepsStayInTotal
  BY <1>2, <1>5 DEF StepsStayInTotal, RunInv
<1> QED
  BY <1>1, <1>2, <1>4, <1>5

\* Between transactions the database is open exactly if the client has it locked,
\* whichever way a transaction ends (close_db in rc_rpmman_transact).
THEOREM DatabaseStaysGivenBack ==
  ASSUME RpmTransactAssumption
  PROVE  Spec => []DatabaseIsGivenBack
BY TransactBegins, TransactKeeps, TransactGives, PTL DEF Spec

\* If no transaction set outlives its transaction, a transaction that is done has done
\* all that was asked for but to remove what only packages obsolete that are installed
\* beside others (LeftToNobody); it runs nothing else, does nothing to a package twice and
\* leaves what is obsoleted to rpm (rc_rpmman_transact).
THEOREM TransactionsDoWhatIsAsked ==
  ASSUME RpmTransactAssumption, Fresh
  PROVE  Spec => [](/\ DoneMeansDone /\ RunsWhatIsAsked /\ NothingTwice
                    /\ ObsoletedAreLeftToRpm /\ StepsStayInTotal)
BY TransactBegins, TransactKeeps, TransactGives, PTL DEF Spec

=============================================================================
