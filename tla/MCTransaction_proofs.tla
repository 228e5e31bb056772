-------------------------- MODULE MCTransaction_proofs --------------------------
(***************************************************************************)
(* What holds of transactions on a multi world for all packages, versions, *)
(* files and bounds, whatever fails and whenever the program is killed:    *)
(* what the journal says has happened, and the copies of changed files     *)
(* that go with it are there.                                              *)
(***************************************************************************)
EXTENDS MCTransaction, FiniteSetTheorems, TLAPS

Stages == {"system", "synthetic", "end", "save", "rename"}

\* What is remembered of a transaction.
LogEntry == [time : 1..MaxTime, installed : [Name -> Spec0], file : [Name -> File],
             moved : SUBSET Name, to : Requests, tracked : BOOLEAN]

TypesInv ==
  /\ TypeOK
  /\ log \in Seq(LogEntry)
  /\ pc # "idle" => request \in Requests
  /\ pc \in Stages => info.time \in 1..MaxTime

\* The files of synthetic packages do not change.
PlainInv ==
  \A n \in Name \cap Synthetic :
    file[n] = Stock /\ \A k \in 1..Len(log) : log[k].file[n] = Stock

-----------------------------------------------------------------------------
\* What the journal is going to say has happened, or is about to.
Written(e) == \E k \in 1..Len(log) : Happened(e, log[k])

Due(e, ns) ==
  /\ e.time = info.time /\ e.name \in ns
  /\ e.old = installed[e.name] /\ e.new = request[e.name]

Entries(doc) == {doc[i] : i \in 1..Len(doc)}

AllWritten(ns) == \A e \in Entries(info.doc) : Written(e) \/ Due(e, ns)

\* The transaction that goes on is the last one that is remembered.
Latest == log[Len(log)]

Ours(ns) ==
  /\ Len(log) # 0
  /\ Latest.time = info.time /\ Latest.to = request /\ ns \subseteq Latest.moved

Succeeds == pc \in {"save", "rename"} \/ (pc = "end" /\ ~failed)

DocInv ==
  /\ EntriesHappened
  /\ pc = "system" => AllWritten(DOMAIN request)
  /\ pc = "synthetic" =>
       /\ AllWritten(SyntheticPart)
       /\ SystemPart # {} =>
            Ours(SystemPart) /\ \A n \in SyntheticPart : Latest.installed[n] = installed[n]
  /\ Succeeds => AllWritten({}) /\ Ours({})

-----------------------------------------------------------------------------
\* The package n of the transaction l needs the copy of its file.
Needs(l, n) == n \in l.moved /\ l.installed[n] # 0 /\ IsCopied(n, l.file[n])

IsCopyIn(copies, n, f) == n \in DOMAIN copies /\ copies[n] = f.content

Copied(n, f) == info.changes /\ IsCopyIn(current.copies, n, f)

\* The copies for a transaction that is in the journal have been saved.
IsSaved(l) ==
  \A n \in Name : Needs(l, n) =>
    l.time \in DOMAIN saved /\ IsCopyIn(saved[l.time], n, l.file[n])

CopyInv ==
  /\ \A k \in 1..Len(log) :
       log[k].tracked /\ log[k].time \notin spoilt /\ ~(pc = "rename" /\ k = Len(log))
         => IsSaved(log[k])
  /\ pc = "system" =>
       \A n \in Outgoing : IsCopied(n, file[n]) => Copied(n, file[n])
  /\ Succeeds \/ (pc = "synthetic" /\ SystemPart # {}) =>
       \A n \in Name : Needs(Latest, n) => Copied(n, Latest.file[n])

EnabledInv == pc \in {"idle", "prepare", "save", "rename"} => enabled

TransactionInv == TypesInv /\ PlainInv /\ DocInv /\ CopyInv /\ EnabledInv

MCInv == part = "failing" => TransactionInv

-----------------------------------------------------------------------------
(* Types *)

LEMMA RequestType ==
  ASSUME NEW r \in Requests
  PROVE  DOMAIN r \subseteq Name /\ DOMAIN r # {} /\ \A n \in DOMAIN r : r[n] \in Spec0
<1>1. PICK S \in (SUBSET Name) \ {{}} : r \in [S -> Spec0]
  BY DEF Requests
<1> QED
  BY <1>1

\* A set in a sequence.
LEMMA SetToSeqType ==
  ASSUME NEW S, IsFiniteSet(S)
  PROVE  SetToSeq(S) \in Seq(S)
<1>1. Cardinality(S) \in Nat /\ ExistsBijection(1..Cardinality(S), S)
  BY FS_CardinalityType
<1>2. \E f \in [1..Cardinality(S) -> S] : IsInjective(f)
  BY <1>1 DEF ExistsBijection, Bijection, Injection
<1>3. SetToSeq(S) \in [1..Cardinality(S) -> S]
  BY <1>2 DEF SetToSeq
<1> QED
  BY <1>1, <1>3

\* What a <file> node says of a file.
LEMMA FileNodeType ==
  ASSUME NEW n, NEW f \in File
  PROVE  FileNode(n, f) \in File
<1>1. Stock \in File
  BY DEF Stock, File, Content
<1> QED
  BY <1>1 DEF FileNode, File, Stock, Content

LEMMA TrackType ==
  ASSUME NEW time \in Nat, NEW n \in Name, NEW old \in Spec0, NEW new \in Spec0, NEW f \in File
  PROVE  Track(time, n, old, new, f) \in Entry
<1>1. Stock \in File
  BY DEF Stock, File, Content
<1>2. (IF old # 0 THEN FileNode(n, f) ELSE Stock) \in File
  BY <1>1, FileNodeType
<1>3. (old # 0 /\ IsChanged(f)) \in BOOLEAN
  OBVIOUS
<1> QED
  BY <1>2, <1>3 DEF Track, Entry

\* The entries of a request, when the rollback information is prepared.
Tracks ==
  {Track(Timestamp, n, installed[n], request[n], IF n \in Outgoing THEN file[n] ELSE Stock)
     : n \in DOMAIN request}

LEMMA TracksType ==
  ASSUME TypesInv, request \in Requests
  PROVE  Tracks \subseteq Entry /\ SetToSeq(Tracks) \in Seq(Tracks)
<1>1. DOMAIN request \subseteq Name /\ \A n \in DOMAIN request : request[n] \in Spec0
  BY RequestType
<1>2. Stock \in File
  BY DEF Stock, File, Content
<1>3. ASSUME NEW n \in DOMAIN request
      PROVE  Track(Timestamp, n, installed[n], request[n],
                   IF n \in Outgoing THEN file[n] ELSE Stock) \in Entry
  <2>1. (IF n \in Outgoing THEN file[n] ELSE Stock) \in File
    BY <1>1, <1>2 DEF TypesInv, TypeOK
  <2>2. Timestamp \in Nat /\ n \in Name /\ installed[n] \in Spec0 /\ request[n] \in Spec0
    BY <1>1 DEF TypesInv, TypeOK, Timestamp
  <2> QED
    BY <2>1, <2>2, TrackType
<1>4. IsFiniteSet(DOMAIN request)
  BY <1>1, PartsAssumption, FS_Subset DEF TransactionAssumption
<1> DEFINE entry == [n \in DOMAIN request |->
                       Track(Timestamp, n, installed[n], request[n],
                             IF n \in Outgoing THEN file[n] ELSE Stock)]
<1>5. entry \in Surjection(DOMAIN request, Tracks)
  BY DEF Surjection, Tracks
<1>6. IsFiniteSet(Tracks)
  BY <1>4, <1>5, FS_Surjection
<1> QED
  BY <1>3, <1>6, SetToSeqType DEF Tracks


\* What is remembered of a transaction has its type, and packages are as requested.
LEMMA LoggedType ==
  ASSUME TypesInv, pc \in Stages, NEW ns \in SUBSET DOMAIN request
  PROVE  Logged(ns) \in LogEntry
<1>1. request \in Requests /\ DOMAIN request \subseteq Name
  BY RequestType DEF TypesInv, Stages
<1>2. installed \in [Name -> Spec0] /\ file \in [Name -> File] /\ info.time \in 1..MaxTime
  BY DEF TypesInv, TypeOK
<1> QED
  BY <1>1, <1>2 DEF Logged, LogEntry

LEMMA ApplyType ==
  ASSUME TypesInv, pc \in Stages, NEW ns \in SUBSET DOMAIN request, Apply(ns)
  PROVE  installed' \in [Name -> Spec0] /\ file' \in [Name -> File]
<1>1. \A n \in DOMAIN request : request[n] \in Spec0
  BY RequestType DEF TypesInv, Stages
<1>2. installed \in [Name -> Spec0] /\ file \in [Name -> File]
  BY DEF TypesInv, TypeOK
<1>3. Stock \in File
  BY DEF Stock, File, Content
<1> QED
  BY <1>1, <1>2, <1>3 DEF Apply

LEMMA LogType ==
  ASSUME TypesInv, pc \in Stages, NEW ns \in SUBSET DOMAIN request, Log(ns)
  PROVE  log' \in Seq(LogEntry)
<1>1. Logged(ns) \in LogEntry /\ log \in Seq(LogEntry)
  BY LoggedType DEF TypesInv
<1> HIDE DEF LogEntry
<1> QED
  BY <1>1 DEF Log

LEMMA LogMoreType ==
  ASSUME TypesInv, pc \in Stages, NEW ns \in SUBSET DOMAIN request, LogMore(ns)
  PROVE  log' \in Seq(LogEntry)
<1>1. Logged(ns) \in LogEntry /\ log \in Seq(LogEntry) /\ DOMAIN request \subseteq Name
  BY LoggedType, RequestType DEF TypesInv, Stages
<1>2. \A l \in LogEntry : AlsoMoved(l, ns) \in LogEntry
  BY <1>1 DEF AlsoMoved, LogEntry
<1> HIDE DEF LogEntry
<1>3. \A k \in 1..Len(log) : [log EXCEPT ![k] = AlsoMoved(@, ns)] \in Seq(LogEntry)
  BY <1>1, <1>2
<1>4. Len(log) \in 1..Len(log) \/ [log EXCEPT ![Len(log)] = AlsoMoved(@, ns)] = log
  BY <1>1
<1>5. [log EXCEPT ![Len(log)] = AlsoMoved(@, ns)] \in Seq(LogEntry)
  BY <1>1, <1>3, <1>4
<1>6. Append(log, Logged(ns)) \in Seq(LogEntry)
  BY <1>1
<1> QED
  BY <1>1, <1>5, <1>6 DEF LogMore

LEMMA CopiesDomain == ASSUME NEW ns PROVE DOMAIN Copies(ns) \subseteq ns
BY DEF Copies

LEMMA TypesInit == Init => TypesInv
<1> SUFFICES ASSUME Init PROVE TypesInv
  OBVIOUS
<1>1. Stock \in File
  BY DEF Stock, File, Content
<1>2. installed \in [Name -> Spec0] /\ file \in [Name -> File] /\ 1 \in 1..MaxTime /\ 0 \in 0..MaxTime
  BY <1>1, PartsAssumption DEF Init, TransactionAssumption
<1>3. DOMAIN <<>> = {} /\ <<>> \in Seq(Entry) /\ <<>> \in Seq(LogEntry)
  OBVIOUS
<1> QED
  BY <1>2, <1>3 DEF Init, TypesInv, TypeOK, NoInfo, NoDir, Stages

LEMMA TypesKept == ASSUME TypesInv, Next PROVE TypesInv'
<1>1. DOMAIN <<>> = {} /\ <<>> \in Seq(Entry) /\ 0 \in 0..MaxTime
  BY PartsAssumption DEF TransactionAssumption
<1>2. /\ NoDir.exists \in BOOLEAN /\ DOMAIN NoDir.copies \subseteq Name
      /\ NoInfo.time \in 0..MaxTime /\ NoInfo.doc \in Seq(Entry)
  BY <1>1 DEF NoDir, NoInfo
<1> USE DEF TypesInv, TypeOK
<1>3. ASSUME NEW r \in Requests, Transact(r) PROVE TypesInv'
  BY <1>3 DEF Transact, disk, Stages
<1>4. CASE Prepare
  <2>1. request \in Requests /\ DOMAIN request \subseteq Name
    BY <1>4, RequestType DEF Prepare
  <2>2. DOMAIN Copies(Outgoing) \subseteq Name
    BY <2>1, CopiesDomain DEF Outgoing
  <2>3. SetToSeq(Tracks) \in Seq(Entry)
    BY <2>1, TracksType
  <2>4. info'.time \in 1..MaxTime /\ info'.doc \in Seq(Entry)
    BY <1>1, <1>4, <2>3 DEF Prepare, Timestamp, Tracks
  <2>5. current'.exists \in BOOLEAN /\ DOMAIN current'.copies \subseteq Name
    BY <1>4, <2>2 DEF Prepare, Dir
  <2>6. /\ pc' = "system" /\ enabled' = FALSE /\ failed' = FALSE
        /\ UNCHANGED <<clock, installed, file, journal, readable, saved, request, log, spoilt>>
    BY <1>4 DEF Prepare
  <2>7. enabled' \in BOOLEAN /\ failed' \in BOOLEAN
    BY <2>6, Zenon
  <2> QED
    BY <2>1, <2>4, <2>5, <2>6, <2>7 DEF Stages
<1>5. CASE PrepareFails
  <2>1. DOMAIN request \subseteq Name
    BY <1>5, RequestType DEF PrepareFails
  <2>2. PICK ns \in SUBSET Outgoing : current' = Dir(Copies(ns))
    BY <1>5 DEF PrepareFails
  <2>3. DOMAIN Copies(ns) \subseteq Name
    BY <2>1, CopiesDomain DEF Outgoing
  <2>4. current'.exists \in BOOLEAN /\ DOMAIN current'.copies \subseteq Name
    BY <2>2, <2>3 DEF Dir
  <2> QED
    BY <1>5, <2>4 DEF PrepareFails, Stages
<1>6. CASE TransactSystem
  <2>1. SystemPart \in SUBSET DOMAIN request /\ pc \in Stages
    BY <1>6 DEF TransactSystem, SystemPart, Stages
  <2>2. /\ installed' \in [Name -> Spec0] /\ file' \in [Name -> File]
        /\ log' \in Seq(LogEntry)
    BY <1>6, <2>1, ApplyType, LogType DEF TransactSystem
  <2> QED
    BY <1>6, <2>2 DEF TransactSystem, disk, Stages
<1>7. CASE TransactSystemFails
  <2>1. PICK ns \in SUBSET SystemPart : Apply(ns) /\ Log(ns)
    BY <1>7 DEF TransactSystemFails
  <2>2. ns \in SUBSET DOMAIN request /\ pc \in Stages
    BY <1>7 DEF TransactSystemFails, SystemPart, Stages
  <2>3. /\ installed' \in [Name -> Spec0] /\ file' \in [Name -> File]
        /\ log' \in Seq(LogEntry)
    BY <2>1, <2>2, ApplyType, LogType
  <2> QED
    BY <1>7, <2>3 DEF TransactSystemFails, disk, Stages
<1>8. CASE TransactSynthetic \/ TransactSyntheticFails
  <2>1. SyntheticPart \in SUBSET DOMAIN request /\ pc \in Stages
    BY <1>8 DEF TransactSynthetic, TransactSyntheticFails, SyntheticPart, Stages
  <2>2. /\ installed' \in [Name -> Spec0] /\ file' \in [Name -> File]
        /\ log' \in Seq(LogEntry)
    BY <1>8, <2>1, ApplyType, LogMoreType DEF TransactSynthetic, TransactSyntheticFails
  <2> QED
    BY <1>8, <2>2 DEF TransactSynthetic, TransactSyntheticFails, disk, Stages
<1>9. CASE End
  BY <1>2, <1>9 DEF End, Stages
<1>10. CASE SaveJournal
  <2>1. \A l \in LogEntry : AsTracked(l) \in LogEntry
    BY DEF AsTracked, LogEntry
  <2> HIDE DEF LogEntry
  <2>2. \A k \in 1..Len(log) : [log EXCEPT ![k] = AsTracked(@)] \in Seq(LogEntry)
    BY <2>1
  <2>3. Len(log) \in 1..Len(log) \/ [log EXCEPT ![Len(log)] = AsTracked(@)] = log
    OBVIOUS
  <2>4. log' \in Seq(LogEntry)
    BY <1>10, <2>2, <2>3 DEF SaveJournal
  <2> QED
    BY <1>10, <2>4 DEF SaveJournal, Stages
<1>11. CASE SaveJournalFails
  BY <1>2, <1>11 DEF SaveJournalFails, disk, Stages
<1>12. CASE SaveFiles
  <2>1. /\ info' = NoInfo /\ pc' = "idle"
        /\ UNCHANGED <<clock, installed, file, journal, readable, enabled, failed, log>>
        /\ pc = "rename"
    BY <1>12 DEF SaveFiles, Finish
  <2>2. info.time \in 1..MaxTime
    BY <2>1 DEF Stages
  <2>3. current'.exists \in BOOLEAN /\ DOMAIN current'.copies \subseteq Name
    BY <1>2, <1>12 DEF SaveFiles
  <2>4. /\ DOMAIN saved' \subseteq 1..MaxTime
        /\ \A t \in DOMAIN saved' : DOMAIN saved'[t] \subseteq Name
        /\ spoilt' \subseteq 1..MaxTime
    BY <1>12, <2>2 DEF SaveFiles
  <2> QED
    BY <1>2, <2>1, <2>3, <2>4 DEF Stages
<1>13. CASE Crash
  <2>1. /\ info' = NoInfo /\ pc' = "idle" /\ enabled' = TRUE
        /\ UNCHANGED <<clock, installed, file, saved, current, failed, log>>
    BY <1>13 DEF Crash, Finish
  <2>2. spoilt' \subseteq 1..MaxTime
    BY <1>13 DEF Crash, Stages
  <2>3. journal' \in Seq(Entry) /\ readable' \in BOOLEAN
    BY <1>1, <1>13 DEF Crash
  <2> QED
    BY <1>2, <2>1, <2>2, <2>3 DEF Stages
<1>14. CASE Tick
  BY <1>14, PartsAssumption DEF Tick, disk, Stages, TransactionAssumption
<1>15. ASSUME NEW n \in Name, NEW f \in File, EditFile(n, f) PROVE TypesInv'
  BY <1>15 DEF EditFile, disk, Stages
<1> QED
  BY <1>3, <1>4, <1>5, <1>6, <1>7, <1>8, <1>9, <1>10, <1>11, <1>12, <1>13, <1>14, <1>15
  DEF Next, Step


-----------------------------------------------------------------------------
(* What is remembered stays *)

\* The entry m is l, or l with packages added that are synthetic.
Continues(l, m) ==
  /\ m.time = l.time /\ m.installed = l.installed /\ m.file = l.file /\ m.to = l.to
  /\ l.moved \subseteq m.moved /\ m.moved \subseteq l.moved \cup Synthetic

\* Transactions are added, and one gets into the journal as that is written.
LogGrows ==
  /\ Len(log') >= Len(log)
  /\ \A k \in 1..Len(log) : Continues(log[k], log'[k])
  /\ \A k \in 1..Len(log') : k \notin 1..Len(log) => log'[k].file = file
  /\ \A k \in 1..Len(log') : log'[k].tracked =>
       (k \in 1..Len(log) /\ log[k].tracked) \/ (k = Len(log') /\ pc' = "rename")

LEMMA LogUnchanged == ASSUME TypesInv, UNCHANGED log PROVE LogGrows
BY DEF TypesInv, LogGrows, Continues

LEMMA LogAppended ==
  ASSUME TypesInv, NEW ns, Logged(ns) \in LogEntry, log' = Append(log, Logged(ns))
  PROVE  /\ LogGrows /\ Len(log') = Len(log) + 1
         /\ Latest' = Logged(ns)
         /\ \A k \in 1..Len(log) : log'[k] = log[k]
<1>1. /\ log \in Seq(LogEntry) /\ Len(log) \in Nat
      /\ Logged(ns).file = file /\ Logged(ns).tracked = FALSE
  BY DEF TypesInv, Logged
<1> HIDE DEF LogEntry
<1>2. /\ Len(log') = Len(log) + 1 /\ log'[Len(log) + 1] = Logged(ns)
      /\ \A k \in 1..Len(log) : log'[k] = log[k]
  BY <1>1
<1> QED
  BY <1>1, <1>2 DEF LogGrows, Continues, Latest

LEMMA LogMoved ==
  ASSUME TypesInv, Len(log) # 0, NEW ns \in SUBSET Synthetic,
         log' = [log EXCEPT ![Len(log)] = AlsoMoved(@, ns)]
  PROVE  /\ LogGrows /\ Len(log') = Len(log)
         /\ Latest' = AlsoMoved(Latest, ns)
<1>1. log \in Seq(LogEntry) /\ Len(log) \in Nat /\ Len(log) \in 1..Len(log)
  BY DEF TypesInv
<1>2. /\ Len(log') = Len(log) /\ log'[Len(log)] = AlsoMoved(log[Len(log)], ns)
      /\ \A k \in 1..Len(log) : k # Len(log) => log'[k] = log[k]
  BY <1>1
<1>3. log[Len(log)] \in LogEntry
  BY <1>1
<1>4. /\ Continues(log[Len(log)], AlsoMoved(log[Len(log)], ns))
      /\ AlsoMoved(log[Len(log)], ns).tracked = log[Len(log)].tracked
  BY <1>3 DEF Continues, AlsoMoved, LogEntry
<1>5. \A k \in 1..Len(log) : Continues(log[k], log'[k]) /\ log'[k].tracked = log[k].tracked
  BY <1>2, <1>4 DEF Continues
<1>6. ASSUME NEW k \in 1..Len(log'), log'[k].tracked PROVE k \in 1..Len(log) /\ log[k].tracked
  BY <1>2, <1>5, <1>6
<1>7. Latest' = AlsoMoved(Latest, ns)
  BY <1>2 DEF Latest
<1>8. \A k \in 1..Len(log') : k \notin 1..Len(log) => log'[k].file = file
  BY <1>2
<1>9. Len(log') >= Len(log)
  <2>1. Len(log') = Len(log) /\ Len(log) \in Nat
    BY <1>1, <1>2
  <2> QED
    BY <2>1
<1> QED
  BY <1>2, <1>5, <1>6, <1>7, <1>8, <1>9, Zenon DEF LogGrows

LEMMA LogTracked ==
  ASSUME TypesInv, pc' = "rename", log' = [log EXCEPT ![Len(log)] = AsTracked(@)]
  PROVE  LogGrows /\ Len(log') = Len(log)
<1>1. log \in Seq(LogEntry) /\ Len(log) \in Nat
  BY DEF TypesInv
<1>2. /\ Len(log') = Len(log)
      /\ \A k \in 1..Len(log) :
           log'[k] = IF k = Len(log) THEN AsTracked(log[k]) ELSE log[k]
  BY <1>1
<1>3. \A k \in 1..Len(log) : log[k] \in LogEntry
  BY <1>1
<1>4. \A k \in 1..Len(log) : Continues(log[k], AsTracked(log[k])) /\ Continues(log[k], log[k])
  BY <1>3 DEF Continues, AsTracked, LogEntry
<1>5. \A k \in 1..Len(log) : Continues(log[k], log'[k])
  BY <1>2, <1>4
<1>6. ASSUME NEW k \in 1..Len(log'), log'[k].tracked, k # Len(log')
      PROVE  k \in 1..Len(log) /\ log[k].tracked
  BY <1>2, <1>6
<1>7. \A k \in 1..Len(log') : k \notin 1..Len(log) => log'[k].file = file
  BY <1>2
<1>8. Len(log') >= Len(log)
  <2>1. Len(log') = Len(log) /\ Len(log) \in Nat
    BY <1>1, <1>2
  <2> QED
    BY <2>1
<1> QED
  BY <1>2, <1>5, <1>6, <1>7, <1>8, Zenon DEF LogGrows

LEMMA NextGrows == ASSUME TypesInv, Next PROVE LogGrows
<1>1. CASE UNCHANGED log
  BY <1>1, LogUnchanged
<1>2. ASSUME NEW ns \in SUBSET SystemPart, pc = "system", Log(ns) PROVE LogGrows
  <2>1. Logged(ns) \in LogEntry
    BY <1>2, LoggedType DEF Stages, SystemPart
  <2>2. CASE ns = {}
    BY <1>1, <1>2, <2>2 DEF Log
  <2> QED
    BY <1>2, <2>1, <2>2, LogAppended DEF Log
<1>3. CASE pc = "synthetic" /\ LogMore(SyntheticPart)
  <2>1. Logged(SyntheticPart) \in LogEntry
    BY <1>3, LoggedType DEF Stages, SyntheticPart
  <2>2. CASE SyntheticPart = {}
    BY <1>1, <1>3, <2>2 DEF LogMore
  <2>3. CASE SyntheticPart # {} /\ SystemPart = {}
    BY <1>3, <2>1, <2>3, LogAppended DEF LogMore
  <2>4. CASE SyntheticPart # {} /\ SystemPart # {}
    <3>1. log' = [log EXCEPT ![Len(log)] = AlsoMoved(@, SyntheticPart)]
      BY <1>3, <2>4 DEF LogMore
    <3>2. CASE Len(log) = 0
      <4>1. log' = log
        BY <3>1, <3>2 DEF TypesInv
      <4> QED
        BY <1>1, <4>1
    <3> QED
      BY <3>1, <3>2, LogMoved DEF SyntheticPart
  <2> QED
    BY <2>2, <2>3, <2>4
<1>4. CASE SaveJournal
  BY <1>4, LogTracked DEF SaveJournal
<1> QED
  BY <1>1, <1>2, <1>3, <1>4
  DEF Next, Step, Transact, Prepare, PrepareFails, TransactSystem, TransactSystemFails,
      TransactSynthetic, TransactSyntheticFails, End, SaveJournalFails, SaveFiles, Crash, Tick,
      EditFile

\* What has happened has happened.
LEMMA WrittenStays == ASSUME TypesInv, LogGrows, NEW e, Written(e) PROVE Written(e)'
<1>1. PICK k \in 1..Len(log) : Happened(e, log[k])
  BY DEF Written
<1>2. k \in 1..Len(log') /\ Happened(e, log'[k])
  BY <1>1 DEF TypesInv, LogGrows, Continues, Happened
<1> QED
  BY <1>2 DEF Written

LEMMA PlainInit == Init => PlainInv
BY DEF Init, PlainInv

LEMMA PlainKept == ASSUME TypesInv, PlainInv, Next PROVE PlainInv'
<1>1. LogGrows
  BY NextGrows
<1>2. ASSUME NEW n \in Name \cap Synthetic PROVE file'[n] = Stock
  <2>1. file[n] = Stock
    BY DEF PlainInv
  <2>2. CASE UNCHANGED file
    BY <2>1, <2>2
  <2>3. ASSUME NEW ns, Apply(ns) PROVE file'[n] = Stock
    BY <2>1, <2>3 DEF Apply
  <2>4. ASSUME NEW m \in Name, NEW f \in File, EditFile(m, f) PROVE file'[n] = Stock
    BY <2>1, <2>4 DEF EditFile, TypesInv, TypeOK
  <2> QED
    BY <2>2, <2>3, <2>4
    DEF Next, Step, Transact, Prepare, PrepareFails, TransactSystem, TransactSystemFails,
        TransactSynthetic, TransactSyntheticFails, End, SaveJournal, SaveJournalFails,
        SaveFiles, Crash, Tick
<1>3. ASSUME NEW n \in Name \cap Synthetic, NEW k \in 1..Len(log') PROVE log'[k].file[n] = Stock
  BY <1>1 DEF PlainInv, LogGrows, Continues
<1> QED
  BY <1>2, <1>3 DEF PlainInv


-----------------------------------------------------------------------------
(* The journal is true *)

\* The journal stays true, and what it is going to say gets no more.
LEMMA EntriesStay ==
  ASSUME TypesInv, EntriesHappened, LogGrows, UNCHANGED journal
  PROVE  EntriesHappened'
<1>1. ASSUME NEW e \in Entries(journal) PROVE Written(e)'
  BY WrittenStays DEF EntriesHappened, Written, Entries
<1> QED
  BY <1>1 DEF EntriesHappened, Written, Entries

\* The rollback information names what is in the journal and what is requested.
LEMMA PrepareIsTrue ==
  ASSUME TypesInv, EntriesHappened, LogGrows, Prepare
  PROVE  AllWritten(DOMAIN request)'
<1> DEFINE old == IF readable THEN journal ELSE <<>>
           new == SetToSeq(Tracks)
<1>1. /\ request \in Requests /\ info'.doc = old \o new /\ info'.time = Timestamp
      /\ UNCHANGED <<installed, request, log>>
  BY DEF Prepare, TypesInv, Tracks
<1>2. old \in Seq(Entry) /\ new \in Seq(Tracks) /\ Tracks \subseteq Entry
  BY <1>1, TracksType DEF TypesInv, TypeOK
<1>3. ASSUME NEW e \in Entries(old) PROVE Written(e)'
  <2>1. Written(e)
    BY DEF Entries, EntriesHappened, Written
  <2> QED
    BY <2>1, WrittenStays
<1>4. ASSUME NEW e \in Tracks PROVE Due(e, DOMAIN request)'
  <2>1. PICK n \in DOMAIN request :
          e = Track(Timestamp, n, installed[n], request[n],
                    IF n \in Outgoing THEN file[n] ELSE Stock)
    BY DEF Tracks
  <2>2. e.time = Timestamp /\ e.name = n /\ e.old = installed[n] /\ e.new = request[n]
    BY <2>1 DEF Track
  <2> QED
    BY <1>1, <2>2 DEF Due
<1> HIDE DEF old, new, Tracks, Entry
<1>5. ASSUME NEW e \in Entries(old \o new) PROVE e \in Entries(old) \/ e \in Tracks
  <2>1. PICK i \in 1..Len(old \o new) : e = (old \o new)[i]
    BY DEF Entries
  <2>2. CASE i \in 1..Len(old)
    <3>1. (old \o new)[i] = old[i]
      BY <1>2, <2>2
    <3> QED
      BY <2>1, <2>2, <3>1 DEF Entries
  <2>3. CASE i \notin 1..Len(old)
    <3>1. (old \o new)[i] = new[i - Len(old)] /\ i - Len(old) \in 1..Len(new)
      BY <1>2, <2>3
    <3> QED
      BY <1>2, <2>1, <3>1
  <2> QED
    BY <2>2, <2>3
<1>6. ASSUME NEW e \in Entries(info'.doc) PROVE Written(e)' \/ Due(e, DOMAIN request)'
  BY <1>1, <1>3, <1>4, <1>5
<1> QED
  BY <1>6 DEF AllWritten

\* When the packages ns are changed and remembered together, what is due of them
\* has happened.
LEMMA DueHappens ==
  ASSUME NEW e, NEW ns, Due(e, ns), Latest' = Logged(ns), Len(log') \in Nat \ {0}
  PROVE  Written(e)'
<1>1. Happened(e, Logged(ns))
  BY DEF Due, Happened, Logged
<1>2. Len(log') \in 1..Len(log') /\ log'[Len(log')] = Logged(ns)
  BY DEF Latest
<1> QED
  BY <1>1, <1>2 DEF Written

LEMMA SystemIsTrue ==
  ASSUME TypesInv, DocInv, LogGrows, TransactSystem
  PROVE  DocInv'
<1>1. /\ pc = "system" /\ pc' = "synthetic" /\ UNCHANGED <<journal, info, request>>
      /\ Apply(SystemPart) /\ Log(SystemPart) /\ request \in Requests
  BY DEF TransactSystem, disk, TypesInv
<1>2. Logged(SystemPart) \in LogEntry /\ DOMAIN request \subseteq Name
  BY <1>1, LoggedType, RequestType DEF Stages, SystemPart
<1>3. SystemPart # {} =>
        /\ Len(log') = Len(log) + 1 /\ Latest' = Logged(SystemPart) /\ Len(log) \in Nat
  BY <1>1, <1>2, LogAppended DEF Log, TypesInv
<1>4. ASSUME NEW e \in Entries(info.doc) PROVE Written(e)' \/ Due(e, SyntheticPart)'
  <2>1. Written(e) \/ Due(e, DOMAIN request)
    BY <1>1 DEF DocInv, AllWritten
  <2>2. CASE Written(e)
    BY <2>2, WrittenStays
  <2>3. CASE Due(e, SystemPart)
    <3>1. SystemPart # {}
      BY <2>3 DEF Due
    <3> QED
      BY <1>3, <2>3, <3>1, DueHappens
  <2>4. CASE Due(e, DOMAIN request) /\ e.name \notin SystemPart
    <3>1. e.name \in SyntheticPart /\ e.name \in Name
      BY <1>2, <2>4 DEF Due, SystemPart, SyntheticPart
    <3>2. installed'[e.name] = installed[e.name] /\ SyntheticPart' = SyntheticPart
      BY <1>1, <2>4, <3>1 DEF Apply, SyntheticPart
    <3> QED
      BY <1>1, <2>4, <3>1, <3>2 DEF Due
  <2> QED
    BY <2>1, <2>2, <2>3, <2>4 DEF Due
<1>5. SystemPart # {} => Ours(SystemPart)'
  BY <1>1, <1>3 DEF Ours, Logged, SystemPart
<1>6. SystemPart # {} => \A n \in SyntheticPart : (Latest.installed[n] = installed[n])'
  <2>1. ASSUME NEW n \in SyntheticPart PROVE installed'[n] = installed[n]
    BY <1>1, <1>2 DEF Apply, SyntheticPart, SystemPart
  <2> QED
    BY <1>3, <2>1 DEF Logged
<1>7. EntriesHappened'
  BY <1>1, EntriesStay DEF DocInv
<1>8. SystemPart' = SystemPart /\ SyntheticPart' = SyntheticPart
  BY <1>1 DEF SystemPart, SyntheticPart
<1> QED
  BY <1>1, <1>4, <1>5, <1>6, <1>7, <1>8 DEF DocInv, AllWritten, Succeeds

LEMMA SyntheticIsTrue ==
  ASSUME TypesInv, DocInv, LogGrows, TransactSynthetic
  PROVE  DocInv'
<1>1. /\ pc = "synthetic" /\ pc' = "end" /\ UNCHANGED <<journal, info, request>>
      /\ LogMore(SyntheticPart) /\ request \in Requests
  BY DEF TransactSynthetic, disk, TypesInv
<1>2. Logged(SyntheticPart) \in LogEntry /\ SyntheticPart \subseteq Synthetic
  BY <1>1, LoggedType DEF Stages, SyntheticPart
<1>3. SystemPart # {} \/ SyntheticPart # {}
  BY <1>1, RequestType DEF SystemPart, SyntheticPart
<1>4. Len(log) \in Nat /\ log \in Seq(LogEntry)
  BY DEF TypesInv
<1>5. Ours({})' /\ \A e : Due(e, SyntheticPart) => Written(e)'
  <2>1. CASE SyntheticPart = {}
    <3>1. log' = log /\ Ours(SystemPart)
      BY <1>1, <1>3, <2>1 DEF LogMore, DocInv
    <3> QED
      BY <1>1, <2>1, <3>1 DEF Ours, Latest, Due
  <2>2. CASE SyntheticPart # {} /\ SystemPart = {}
    <3>1. Len(log') = Len(log) + 1 /\ Latest' = Logged(SyntheticPart)
      BY <1>1, <1>2, <2>2, LogAppended DEF LogMore
    <3>2. Ours({})'
      BY <1>1, <1>4, <3>1 DEF Ours, Logged
    <3>3. ASSUME NEW e, Due(e, SyntheticPart) PROVE Written(e)'
      BY <1>4, <3>1, <3>3, DueHappens
    <3> QED
      BY <3>2, <3>3
  <2>3. CASE SyntheticPart # {} /\ SystemPart # {}
    <3>1. Ours(SystemPart) /\ \A n \in SyntheticPart : Latest.installed[n] = installed[n]
      BY <1>1, <2>3 DEF DocInv
    <3>2. Len(log') = Len(log) /\ Latest' = AlsoMoved(Latest, SyntheticPart)
      BY <1>1, <1>2, <2>3, <3>1, LogMoved DEF LogMore, Ours
    <3>3. Latest \in LogEntry
      BY <1>4, <3>1 DEF Ours, Latest
    <3>4. /\ Latest'.time = info.time /\ Latest'.to = request
          /\ SyntheticPart \subseteq Latest'.moved /\ Latest'.installed = Latest.installed
      BY <3>1, <3>2, <3>3 DEF AlsoMoved, LogEntry, Ours
    <3>5. ASSUME NEW e, Due(e, SyntheticPart) PROVE Written(e)'
      <4>1. Happened(e, Latest')
        BY <3>1, <3>4, <3>5 DEF Due, Happened
      <4>2. Len(log') \in 1..Len(log')
        BY <1>4, <3>1, <3>2 DEF Ours
      <4> QED
        BY <4>1, <4>2 DEF Written, Latest
    <3> QED
      BY <1>1, <3>1, <3>2, <3>4, <3>5 DEF Ours
  <2> QED
    BY <2>1, <2>2, <2>3
<1>6. ASSUME NEW e \in Entries(info.doc) PROVE Written(e)'
  <2>1. Written(e) \/ Due(e, SyntheticPart)
    BY <1>1 DEF DocInv, AllWritten
  <2> QED
    BY <1>5, <2>1, WrittenStays
<1>7. EntriesHappened'
  BY <1>1, EntriesStay DEF DocInv
<1> QED
  BY <1>1, <1>5, <1>6, <1>7 DEF DocInv, AllWritten, Succeeds


LEMMA DocInit == Init => DocInv
BY DEF Init, DocInv, EntriesHappened, Succeeds

LEMMA DocKept == ASSUME TypesInv, DocInv, Next PROVE DocInv'
<1>1. LogGrows
  BY NextGrows
<1>2. ASSUME UNCHANGED journal, pc' \in {"idle", "prepare"} PROVE DocInv'
  BY <1>1, <1>2, EntriesStay DEF DocInv, Succeeds
<1>3. ASSUME NEW r \in Requests, Transact(r) PROVE DocInv'
  BY <1>2, <1>3 DEF Transact, disk
<1>4. CASE Prepare
  <2>1. AllWritten(DOMAIN request)'
    BY <1>1, <1>4, PrepareIsTrue DEF DocInv
  <2>2. EntriesHappened'
    BY <1>1, <1>4, EntriesStay DEF Prepare, DocInv
  <2>3. pc' = "system"
    BY <1>4 DEF Prepare
  <2> QED
    BY <2>1, <2>2, <2>3 DEF DocInv, Succeeds
<1>5. CASE PrepareFails
  BY <1>2, <1>5 DEF PrepareFails
<1>6. CASE TransactSystem
  BY <1>1, <1>6, SystemIsTrue
<1>7. CASE TransactSystemFails \/ TransactSyntheticFails
  <2>1. UNCHANGED journal /\ pc' = "end" /\ failed'
    BY <1>7 DEF TransactSystemFails, TransactSyntheticFails, disk
  <2>2. EntriesHappened'
    BY <1>1, <2>1, EntriesStay DEF DocInv
  <2> QED
    BY <2>1, <2>2 DEF DocInv, Succeeds
<1>8. CASE TransactSynthetic
  BY <1>1, <1>8, SyntheticIsTrue
<1>9. CASE End
  <2>1. CASE failed
    BY <1>2, <1>9, <2>1 DEF End
  <2>2. CASE ~failed
    <3>1. /\ pc = "end" /\ pc' = "save" /\ UNCHANGED <<journal, info, request, installed, log>>
      BY <1>9, <2>2 DEF End
    <3>2. AllWritten({}) /\ Ours({}) /\ EntriesHappened
      BY <2>2, <3>1 DEF DocInv, Succeeds
    <3>3. AllWritten({})' /\ Ours({})' /\ EntriesHappened'
      BY <3>1, <3>2
      DEF AllWritten, Ours, EntriesHappened, Written, Due, Latest
    <3> QED
      BY <3>1, <3>3 DEF DocInv
  <2> QED
    BY <2>1, <2>2
<1>10. CASE SaveJournal
  <2>1. /\ pc = "save" /\ pc' = "rename" /\ journal' = info.doc
        /\ UNCHANGED <<info, request, installed>>
    BY <1>10 DEF SaveJournal
  <2>2. ASSUME NEW e \in Entries(info.doc) PROVE Written(e)'
    <3>1. Written(e)
      BY <2>1 DEF DocInv, AllWritten, Succeeds, Due
    <3> QED
      BY <1>1, <3>1, WrittenStays
  <2>3. Ours({})'
    <3>1. Ours({}) /\ Len(log) \in Nat
      BY <2>1 DEF DocInv, Succeeds, TypesInv
    <3>2. Len(log') = Len(log)
      BY <1>10, <2>1, LogTracked DEF SaveJournal
    <3>3. Len(log) \in 1..Len(log)
      BY <3>1 DEF Ours
    <3>4. Latest'.time = Latest.time /\ Latest'.to = Latest.to
      BY <1>1, <3>2, <3>3 DEF LogGrows, Continues, Latest
    <3> QED
      BY <2>1, <3>1, <3>2, <3>4 DEF Ours
  <2> QED
    BY <2>1, <2>2, <2>3 DEF DocInv, EntriesHappened, Written, Entries, AllWritten, Succeeds
<1>11. CASE SaveJournalFails
  BY <1>2, <1>11 DEF SaveJournalFails, disk
<1>12. CASE SaveFiles
  BY <1>2, <1>12 DEF SaveFiles, Finish
<1>13. CASE Crash
  <2>1. CASE UNCHANGED journal
    BY <1>2, <1>13, <2>1 DEF Crash, Finish
  <2>2. CASE journal' = <<>>
    <3>1. EntriesHappened'
      BY <2>2 DEF EntriesHappened
    <3> QED
      BY <1>13, <3>1 DEF Crash, Finish, DocInv, Succeeds
  <2> QED
    BY <1>13, <2>1, <2>2 DEF Crash
<1>14. CASE Tick
  BY <1>2, <1>14 DEF Tick, disk
<1>15. ASSUME NEW n \in Name, NEW f \in File, EditFile(n, f) PROVE DocInv'
  BY <1>2, <1>15 DEF EditFile, disk
<1> QED
  BY <1>3, <1>4, <1>5, <1>6, <1>7, <1>8, <1>9, <1>10, <1>11, <1>12, <1>13, <1>14, <1>15
  DEF Next, Step

-----------------------------------------------------------------------------
(* The copies are there *)

LEMMA StockIsNotCopied == \A n : ~IsCopied(n, Stock)
BY DEF IsCopied, IsChanged

\* A package that is added to a transaction later needs no copy.
LEMMA NeedsStays ==
  ASSUME TypesInv, PlainInv, NEW k \in 1..Len(log), NEW m, Continues(log[k], m),
         NEW n \in Name, Needs(m, n)
  PROVE  Needs(log[k], n) /\ m.file[n] = log[k].file[n]
<1>1. CASE n \in Synthetic
  BY <1>1, StockIsNotCopied DEF PlainInv, Continues, Needs
<1>2. CASE n \notin Synthetic
  BY <1>2 DEF Continues, Needs
<1> QED
  BY <1>1, <1>2

\* What is saved stays, and so does what is known to be lost.
LEMMA SavedStays ==
  ASSUME Next
  PROVE  /\ spoilt \subseteq spoilt'
         /\ \A t \in DOMAIN saved : t \in DOMAIN saved' /\ saved'[t] = saved[t]
<1>1. CASE SaveFiles
  BY <1>1 DEF SaveFiles
<1>2. CASE Crash
  BY <1>2 DEF Crash
<1> QED
  BY <1>1, <1>2
  DEF Next, Step, Transact, Prepare, PrepareFails, TransactSystem, TransactSystemFails,
      TransactSynthetic, TransactSyntheticFails, End, SaveJournal, SaveJournalFails, Tick,
      EditFile, disk

\* The directory is renamed, or there is nothing in it, or another one was in the way.
LEMMA RenameSaves ==
  ASSUME TypesInv, DocInv, CopyInv, SaveFiles, Latest.time \notin spoilt', NEW n \in Name,
         Needs(Latest, n)
  PROVE  Latest.time \in DOMAIN saved' /\ IsCopyIn(saved'[Latest.time], n, Latest.file[n])
<1>1. Latest.time = info.time /\ Copied(n, Latest.file[n])
  BY DEF SaveFiles, DocInv, CopyInv, Succeeds, Ours
<1> QED
  BY <1>1 DEF SaveFiles, Copied, IsCopyIn

\* What is in the journal has its copies, unless they got lost.
LEMMA SavedKept ==
  ASSUME TypesInv, PlainInv, DocInv, CopyInv, Next, NEW k \in 1..Len(log'),
         log'[k].tracked, log'[k].time \notin spoilt', ~(pc' = "rename" /\ k = Len(log')),
         NEW n \in Name, Needs(log'[k], n)
  PROVE  log'[k].time \in DOMAIN saved' /\ IsCopyIn(saved'[log'[k].time], n, log'[k].file[n])
<1>1. /\ k \in 1..Len(log) /\ log[k].tracked /\ Continues(log[k], log'[k])
  BY NextGrows DEF LogGrows
<1>2. /\ log'[k].time = log[k].time /\ Needs(log[k], n) /\ log'[k].file[n] = log[k].file[n]
  BY <1>1, NeedsStays DEF Continues
<1>3. log[k].time \notin spoilt
  BY <1>2, SavedStays
<1>4. CASE ~(pc = "rename" /\ k = Len(log))
  <2>1. log[k].time \in DOMAIN saved /\ IsCopyIn(saved[log[k].time], n, log[k].file[n])
    BY <1>1, <1>2, <1>3, <1>4 DEF CopyInv, IsSaved
  <2> QED
    BY <1>2, <2>1, SavedStays DEF IsCopyIn
<1>5. CASE pc = "rename" /\ k = Len(log)
  <2>1. Latest = log[k]
    BY <1>5 DEF Latest
  <2>2. CASE SaveFiles
    BY <1>2, <2>1, <2>2, RenameSaves
  <2>3. CASE Crash
    <3>1. info.time \in spoilt' /\ Latest.time = info.time
      BY <1>5, <2>3 DEF Crash, DocInv, Succeeds, Ours
    <3> QED
      BY <1>2, <2>1, <3>1
  <2> QED
    BY <1>5, <2>2, <2>3
    DEF Next, Step, Transact, Prepare, PrepareFails, TransactSystem, TransactSystemFails,
        TransactSynthetic, TransactSyntheticFails, End, SaveJournal, SaveJournalFails, Tick,
        EditFile
<1> QED
  BY <1>4, <1>5


LatestIsCopied == \A n \in Name : Needs(Latest, n) => Copied(n, Latest.file[n])

\* What holds of the copies of the last transaction still holds.
LEMMA LatestStaysCopied ==
  ASSUME TypesInv, PlainInv, LogGrows, LatestIsCopied, Len(log) # 0, Len(log') = Len(log),
         UNCHANGED <<info, current>>
  PROVE  LatestIsCopied'
<1>1. Len(log) \in 1..Len(log) /\ Continues(Latest, Latest')
  BY DEF TypesInv, LogGrows, Latest
<1>2. ASSUME NEW n \in Name, Needs(Latest', n) PROVE Copied(n, Latest'.file[n])
  <2>1. Needs(Latest, n) /\ Latest'.file[n] = Latest.file[n]
    BY <1>1, <1>2, NeedsStays DEF Latest
  <2> QED
    BY <2>1 DEF LatestIsCopied
<1>3. ASSUME NEW n \in Name, Needs(Latest', n) PROVE Copied(n, Latest.file[n])'
  BY <1>2, <1>3 DEF Copied, IsCopyIn
<1> QED
  BY <1>3 DEF LatestIsCopied, Needs

\* Files of packages that are to go are copied before.
LEMMA PrepareCopies ==
  ASSUME Prepare
  PROVE  (\A n \in Outgoing : IsCopied(n, file[n]) => Copied(n, file[n]))'
<1>1. /\ current'.copies = Copies(Outgoing)
      /\ info'.changes = (DOMAIN Copies(Outgoing) # {})
      /\ Outgoing' = Outgoing /\ file' = file
  BY DEF Prepare, Dir, Outgoing
<1>2. ASSUME NEW n \in Outgoing, IsCopied(n, file[n])
      PROVE  n \in DOMAIN Copies(Outgoing) /\ Copies(Outgoing)[n] = file[n].content
  BY <1>2 DEF Copies
<1>3. ASSUME NEW n \in Outgoing, IsCopied(n, file[n]) PROVE info'.changes
  BY <1>1, <1>2, <1>3
<1>4. ASSUME NEW n \in Outgoing, IsCopied(n, file[n]) PROVE Copied(n, file[n])'
  BY <1>1, <1>2, <1>3, <1>4 DEF Copied, IsCopyIn
<1> QED
  BY <1>1, <1>4

\* The transaction of the system worlds is remembered with the copies of its files.
LEMMA SystemIsCopied ==
  ASSUME TypesInv, CopyInv, TransactSystem, SystemPart # {}
  PROVE  LatestIsCopied'
<1>1. /\ pc = "system" /\ UNCHANGED <<current, info>> /\ Log(SystemPart)
  BY DEF TransactSystem, disk
<1>2. Logged(SystemPart) \in LogEntry
  BY <1>1, LoggedType DEF Stages, SystemPart
<1>3. Latest' = Logged(SystemPart)
  BY <1>1, <1>2, LogAppended DEF Log
<1>4. ASSUME NEW n \in Name, Needs(Latest', n) PROVE Copied(n, Latest'.file[n])
  <2>1. n \in Outgoing /\ IsCopied(n, file[n]) /\ Latest'.file[n] = file[n]
    BY <1>3, <1>4 DEF Needs, Logged, Outgoing, SystemPart
  <2> QED
    BY <1>1, <2>1 DEF CopyInv
<1>5. ASSUME NEW n \in Name, Needs(Latest', n) PROVE Copied(n, Latest.file[n])'
  BY <1>1, <1>4, <1>5 DEF Copied, IsCopyIn
<1> QED
  BY <1>5 DEF LatestIsCopied, Needs

\* Synthetic packages that are added to it have no files to copy.
LEMMA SyntheticIsCopied ==
  ASSUME TypesInv, PlainInv, DocInv, CopyInv, LogGrows, TransactSynthetic
  PROVE  LatestIsCopied'
<1>1. /\ pc = "synthetic" /\ UNCHANGED <<current, info>> /\ LogMore(SyntheticPart)
      /\ request \in Requests
  BY DEF TransactSynthetic, disk, TypesInv
<1>2. SystemPart # {} \/ SyntheticPart # {}
  BY <1>1, RequestType DEF SystemPart, SyntheticPart
<1>3. CASE SystemPart # {}
  <2>1. LatestIsCopied /\ Len(log) # 0
    BY <1>1, <1>3 DEF CopyInv, LatestIsCopied, DocInv, Ours
  <2>2. Len(log') = Len(log)
    BY <1>1, <1>3, <2>1, LogMoved DEF LogMore, SyntheticPart
  <2> QED
    BY <1>1, <2>1, <2>2, LatestStaysCopied
<1>4. CASE SystemPart = {}
  <2>1. Logged(SyntheticPart) \in LogEntry
    BY <1>1, LoggedType DEF Stages, SyntheticPart
  <2>2. Latest' = Logged(SyntheticPart)
    BY <1>1, <1>2, <1>4, <2>1, LogAppended DEF LogMore
  <2>3. ASSUME NEW n \in Name PROVE ~Needs(Latest', n)
    BY <2>2, StockIsNotCopied DEF Needs, Logged, SyntheticPart, PlainInv
  <2> QED
    BY <2>3 DEF LatestIsCopied, Needs
<1> QED
  BY <1>3, <1>4

LEMMA CopyInit == Init => CopyInv
BY DEF Init, CopyInv, Succeeds

LEMMA CopyKept == ASSUME TypesInv, PlainInv, DocInv, CopyInv, Next PROVE CopyInv'
<1>1. LogGrows
  BY NextGrows
<1>2. ASSUME NEW k \in 1..Len(log'), log'[k].tracked, log'[k].time \notin spoilt',
             ~(pc' = "rename" /\ k = Len(log'))
      PROVE  IsSaved(log[k])'
  BY <1>2, SavedKept DEF IsSaved, Needs
<1>3. /\ pc' = "system" =>
           (\A n \in Outgoing : IsCopied(n, file[n]) => Copied(n, file[n]))'
      /\ (Succeeds \/ (pc = "synthetic" /\ SystemPart # {}))' => LatestIsCopied'
  <2>1. CASE pc' \in {"idle", "prepare"}
    BY <2>1 DEF Succeeds
  <2>2. CASE Prepare
    <3>1. pc' = "system"
      BY <2>2 DEF Prepare
    <3> QED
      BY <2>2, <3>1, PrepareCopies DEF Succeeds
  <2>3. CASE TransactSystem
    <3>1. pc' = "synthetic" /\ SystemPart' = SystemPart
      BY <2>3 DEF TransactSystem, SystemPart
    <3>2. SystemPart # {} => LatestIsCopied'
      BY <2>3, SystemIsCopied
    <3> QED
      BY <3>1, <3>2 DEF Succeeds
  <2>4. CASE TransactSystemFails \/ TransactSyntheticFails
    BY <2>4 DEF TransactSystemFails, TransactSyntheticFails, Succeeds
  <2>5. CASE TransactSynthetic
    <3>1. pc' = "end"
      BY <2>5 DEF TransactSynthetic
    <3> QED
      BY <1>1, <2>5, <3>1, SyntheticIsCopied
  <2>6. CASE End /\ ~failed
    <3>1. pc = "end" /\ pc' = "save" /\ UNCHANGED <<info, current, log>>
      BY <2>6 DEF End
    <3>2. LatestIsCopied /\ Len(log) # 0
      BY <2>6, <3>1 DEF CopyInv, LatestIsCopied, Succeeds, DocInv, Ours
    <3> QED
      BY <1>1, <3>1, <3>2, LatestStaysCopied
  <2>7. CASE SaveJournal
    <3>1. pc = "save" /\ pc' = "rename" /\ UNCHANGED <<info, current>>
      BY <2>7 DEF SaveJournal
    <3>2. LatestIsCopied /\ Len(log) # 0
      BY <3>1 DEF CopyInv, LatestIsCopied, Succeeds, DocInv, Ours
    <3>3. Len(log') = Len(log)
      BY <2>7, <3>1, LogTracked DEF SaveJournal
    <3> QED
      BY <1>1, <3>1, <3>2, <3>3, LatestStaysCopied
  <2>8. ASSUME NEW r \in Requests, Transact(r) PROVE pc' = "prepare"
    BY <2>8 DEF Transact
  <2>9. CASE PrepareFails \/ (End /\ failed) \/ SaveJournalFails \/ SaveFiles \/ Crash \/ Tick
    BY <2>1, <2>9 DEF PrepareFails, End, SaveJournalFails, SaveFiles, Crash, Finish, Tick
  <2>10. ASSUME NEW n \in Name, NEW f \in File, EditFile(n, f) PROVE pc' = "idle"
    BY <2>10 DEF EditFile
  <2> QED
    BY <2>1, <2>2, <2>3, <2>4, <2>5, <2>6, <2>7, <2>8, <2>9, <2>10 DEF Next, Step
<1>4. \A k \in 1..Len(log') :
        log'[k].tracked /\ log'[k].time \notin spoilt' /\ ~(pc' = "rename" /\ k = Len(log'))
          => IsSaved(log[k])'
  BY <1>2
<1> QED
  BY <1>3, <1>4 DEF CopyInv, LatestIsCopied

-----------------------------------------------------------------------------
(* The theorem *)

LEMMA EnabledKept == ASSUME EnabledInv, Next PROVE EnabledInv'
BY DEF EnabledInv, Next, Step, Transact, Prepare, PrepareFails, TransactSystem,
       TransactSystemFails, TransactSynthetic, TransactSyntheticFails, End, SaveJournal,
       SaveJournalFails, SaveFiles, Crash, Finish, Tick, EditFile

LEMMA TransactionInvInit == Init => TransactionInv
<1>1. Init => EnabledInv
  BY DEF Init, EnabledInv
<1> QED
  BY <1>1, TypesInit, PlainInit, DocInit, CopyInit DEF TransactionInv

LEMMA TransactionInvKept == TransactionInv /\ [Next]_vars => TransactionInv'
<1>1. ASSUME TransactionInv, Next PROVE TransactionInv'
  BY <1>1, TypesKept, PlainKept, DocKept, CopyKept, EnabledKept DEF TransactionInv
<1>2. ASSUME TransactionInv, UNCHANGED vars PROVE TransactionInv'
  <2> USE <1>2 DEF TransactionInv, vars, disk
  <2>1. TypesInv'
    BY DEF TypesInv, TypeOK
  <2>2. PlainInv' /\ EnabledInv'
    BY DEF PlainInv, EnabledInv
  <2>3. DocInv'
    BY DEF DocInv, EntriesHappened, AllWritten, Written, Due, Ours, Latest, Succeeds,
           SystemPart, SyntheticPart
  <2>4. CopyInv'
    BY DEF CopyInv, IsSaved, Copied, Latest, Outgoing, Succeeds, SystemPart
  <2> QED
    BY <2>1, <2>2, <2>3, <2>4
<1> QED
  BY <1>1, <1>2

\* The copies that go with what the journal says are there when nothing goes on.
LEMMA InvGivesCopies == TransactionInv => CopiesAreThere
<1> SUFFICES ASSUME TransactionInv, pc = "idle", NEW k \in 1..Len(log), NEW n \in log[k].moved,
                    log[k].tracked, log[k].time \notin spoilt, log[k].installed[n] # 0,
                    IsCopied(n, log[k].file[n])
             PROVE  /\ log[k].time \in DOMAIN saved
                    /\ n \in DOMAIN saved[log[k].time]
                    /\ saved[log[k].time][n] = log[k].file[n].content
  BY DEF CopiesAreThere
<1>1. log[k] \in LogEntry
  BY DEF TransactionInv, TypesInv
<1>2. n \in Name /\ Needs(log[k], n)
  BY <1>1 DEF LogEntry, Needs
<1> QED
  BY <1>2 DEF TransactionInv, CopyInv, IsSaved, IsCopyIn

\* Whatever fails and whenever the program is killed, the entries of the journal
\* have happened, the copies that go with them are there, and rollback is enabled
\* again (rc_rollback_info_save, rc_rollback_info_discard).
THEOREM JournalStaysTrue == Spec => [](TypeOK /\ EntriesHappened /\ CopiesAreThere /\ EnabledAgain)
<1>1. TransactionInv => TypeOK /\ EntriesHappened /\ CopiesAreThere /\ EnabledAgain
  BY InvGivesCopies DEF TransactionInv, TypesInv, DocInv, EnabledInv, EnabledAgain
<1> QED
  BY <1>1, TransactionInvInit, TransactionInvKept, PTL DEF Spec

\* The same of the instance in which anything may fail.
THEOREM JournalIsAlwaysTrue == MCSpec => []JournalIsTrue
<1>1. MCInit => MCInv
  BY TransactionInvInit DEF MCInit, MCInv
<1>2. MCInv /\ [MCNext]_<<part, vars>> => MCInv'
  BY TransactionInvKept DEF MCInv, MCNext
<1>3. MCInv => JournalIsTrue
  BY InvGivesCopies
  DEF MCInv, JournalIsTrue, TransactionInv, TypesInv, DocInv, EnabledInv, EnabledAgain
<1> QED
  BY <1>1, <1>2, <1>3, PTL DEF MCSpec

=============================================================================
