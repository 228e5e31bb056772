------------------------------ MODULE StatusReader ------------------------------
(***************************************************************************)
(* The table of packages of the Debian back end, rc-debman.c: a query      *)
(* reads the status file of dpkg line by line in a main loop of its own.   *)
(* While that loop runs, other processes may replace the file, and the     *)
(* timer that looks for changes may start a query within the query.        *)
(***************************************************************************)
EXTENDS Naturals, Sequences, SequencesExt, FiniteSets

CONSTANTS
  Name,       \* names of packages
  NoName,     \* outside a stanza
  Files,      \* contents of the status file: sequences of lines
  Nested,     \* whether the timer is served while a file is read
  MaxStamp,   \* a bound on the time, in seconds
  MaxDepth    \* a bound on queries within queries

\* A line says one thing, those of no interest here are "field"s.
Line == [kind : {"package"}, name : Name]
        \cup [kind : {"blank", "installed", "removed", "odd", "field"}]

\* What the constants are, assumed wherever they are given values.
StatusReaderAssumption ==
  /\ NoName \notin Name /\ Files \subseteq Seq(Line) /\ Nested \in BOOLEAN
  /\ MaxStamp \in Nat /\ MaxDepth \in Nat \ {0}

VARIABLES
  file,     \* the contents of the status file
  stamp,    \* its modification time, in whole seconds
  noted,    \* db_mtime
  table,    \* package_hash: the names of the packages in it
  unseen,   \* whether the file was last replaced within the second that was noted
  valid,    \* hash_valid
  readers,  \* the queries that are reading, the innermost last
  failed    \* whether the last query that returned reported an error

vars == <<file, stamp, noted, unseen, table, valid, readers, failed>>

Stanza == [name : Name \cup {NoName}, installed : BOOLEAN]
None   == [name |-> NoName, installed |-> FALSE]
Reader == [text : Files, at : Nat, stanza : Stanza, found : SUBSET Stanza,
           error : BOOLEAN, done : BOOLEAN]

TypeOK ==
  /\ file \in Files /\ stamp \in 1..MaxStamp /\ noted \in 0..MaxStamp /\ unseen \in BOOLEAN
  /\ table \subseteq Name /\ valid \in BOOLEAN /\ failed \in BOOLEAN
  /\ readers \in Seq(Reader) /\ Len(readers) <= MaxDepth
  /\ \A i \in 1..Len(readers) : None \notin readers[i].found

Init == /\ file \in Files /\ stamp = 1 /\ noted = 0 /\ unseen = FALSE
        /\ table = {} /\ valid = FALSE /\ readers = <<>> /\ failed = FALSE

-----------------------------------------------------------------------------
\* query_all_read_line_cb

Blank(r) ==
  IF r.stanza = None THEN [r EXCEPT !.error = TRUE]
  ELSE [r EXCEPT !.found = @ \cup {r.stanza}, !.stanza = None]

Begin(r, n) ==
  IF r.stanza # None THEN [r EXCEPT !.error = TRUE]
  ELSE [r EXCEPT !.stanza = [name |-> n, installed |-> FALSE]]

Status(r, what) ==
  IF r.stanza = None \/ what = "odd" THEN [r EXCEPT !.error = TRUE]
  ELSE IF what = "installed" THEN [r EXCEPT !.stanza.installed = TRUE]
  ELSE r

ReadLine(r) ==
  LET line == r.text[r.at]
      s    == [r EXCEPT !.at = @ + 1]
  IN CASE line.kind = "blank"   -> Blank(s)
       [] line.kind = "package" -> Begin(s, line.name)
       [] line.kind = "field"   -> IF s.stanza = None THEN [s EXCEPT !.error = TRUE] ELSE s
       [] OTHER                 -> Status(s, line.kind)

-----------------------------------------------------------------------------
\* rc_debman_query, rc_debman_query_all

\* The reader of a file that is opened now.
Opened == [text |-> file, at |-> 1, stanza |-> None, found |-> {},
           error |-> FALSE, done |-> FALSE]

\* The table is filled first if it is not valid.
Query ==
  /\ readers = <<>>
  /\ \/ valid /\ failed' = FALSE /\ UNCHANGED readers
     \/ ~valid /\ readers' = <<Opened>> /\ UNCHANGED failed
     \/ ~valid /\ failed' = TRUE /\ UNCHANGED readers
  /\ UNCHANGED <<file, stamp, noted, unseen, table, valid>>

\* The line buffer hands out lines to any of the queries.
Read ==
  \E i \in 1..Len(readers) :
    /\ ~readers[i].done /\ readers[i].at <= Len(readers[i].text)
    /\ readers' = [readers EXCEPT ![i] = ReadLine(@)]
    /\ UNCHANGED <<file, stamp, noted, unseen, table, valid, failed>>

\* query_all_read_done_cb
Done(r) == [r EXCEPT !.done = TRUE, !.error = FALSE]

ReadDone ==
  \E i \in 1..Len(readers) :
    /\ ~readers[i].done /\ readers[i].at > Len(readers[i].text)
    /\ readers' = [readers EXCEPT ![i] = Done(@)]
    /\ UNCHANGED <<file, stamp, noted, unseen, table, valid, failed>>

\* Faulty: the packages found take the place of those in the table.
FillOver(r) == {s.name : s \in {t \in r.found : t.installed}}

\* The packages found are put into the table.
Fill(r) == table \cup {s.name : s \in {t \in r.found : t.installed}}

\* The main loop of the innermost query ends; the error that it met is not told.
Return ==
  /\ readers # <<>> /\ Last(readers).done
  /\ table' = Fill(Last(readers)) /\ valid' = TRUE /\ failed' = FALSE
  /\ readers' = Front(readers)
  /\ UNCHANGED <<file, stamp, noted, unseen>>

\* The timer: rc_debman_is_database_changed, whose handlers query all packages.
Check ==
  /\ readers = <<>> \/ Nested
  /\ noted # stamp /\ Len(readers) < MaxDepth
  /\ noted' = stamp /\ table' = {} /\ valid' = FALSE
  /\ readers' = Append(readers, Opened)
  /\ UNCHANGED <<file, stamp, unseen, failed>>

\* Another process replaces the file, in the second of the last change or in a later one.
Change ==
  /\ file' \in Files
  /\ stamp' \in {stamp} \cup {t \in {stamp + 1} : t <= MaxStamp}
  /\ unseen' = (stamp' = noted)
  /\ UNCHANGED <<noted, table, valid, readers, failed>>

Next == Query \/ Read \/ ReadDone \/ Return \/ Check \/ Change

Spec == Init /\ [][Next]_vars

FairSpec == Spec /\ WF_vars(Read) /\ WF_vars(ReadDone) /\ WF_vars(Return) /\ WF_vars(Check)

-----------------------------------------------------------------------------
\* What dpkg means: a package is installed if its stanza says so.
Installed(text) ==
  {text[i].name : i \in {j \in 1..Len(text) :
     /\ text[j].kind = "package"
     /\ \E k \in j..Len(text) :
          /\ text[k].kind = "installed"
          /\ \A l \in j + 1..k : text[l].kind \notin {"package", "blank"}}}

\* A change has been seen and read, and no other has come since.
Settled == valid /\ readers = <<>> /\ noted = stamp /\ ~unseen

\* The table is what the file says (query_all_read_line_cb, rc_debman_query_all_real,
\* rc_debman_is_database_changed).
TableIsTheFile == Settled => table = Installed(file)

\* However queries are nested, no installed package is missing from the table.
NothingIsMissing == Settled => Installed(file) \subseteq table

\* A stanza that does not begin or end as it should is reported: the table that
\* lacks one of its packages is not handed out as a success
\* (the check at "package:" in query_all_read_line_cb).
MalformedIsReported == Settled /\ ~failed => Installed(file) \subseteq table

\* When time goes on no more, the last change of the file comes to be seen, unless it was
\* within the second that had been noted before (database_check_func).
GetsFresh == (stamp = MaxStamp) ~> (Settled \/ unseen)

\* The last change of the file comes to be seen (database_check_func), which fails for one
\* within the second that was noted.
EveryChangeIsSeen == (stamp = MaxStamp) ~> Settled

=============================================================================
